---------------------------- MODULE Spec2Model ----------------------------
(***************************************************************************)
(* h2pmrt: conversion of an HTML element tree to "poor man's rich text".   *)
(*                                                                         *)
(* The document tree is the state.  convert() is a fixed sequence of       *)
(* passes over the one tree; every pass is an action, guarded by the       *)
(* position pc in convert.  A string is a sequence of characters, a        *)
(* character is a one-character TLA+ string.  A text node is               *)
(* [name |-> None, string |-> s]; an element is [name, id, attrs,          *)
(* contents].  The field id gives an element the identity a Python object  *)
(* has: a pass marks the tree (id = the path of the element when the pass  *)
(* selects its work list), walks the work list by id, and the ids are      *)
(* cleared when the pass returns.                                          *)
(***************************************************************************)
EXTENDS Integers, Sequences, FiniteSets, TLC

VARIABLES soup, parsed, pc, raised, img_refs, links, output

vars == <<soup, parsed, pc, raised, img_refs, links, output>>

-----------------------------------------------------------------------------
(* Characters and strings                                                  *)

NBSP == "nbsp"
\* str.isspace / str.strip(): the whitespace characters of the model
Whitespace == {" ", "\t", "\n", NBSP}
\* the character class [ \xa0\t] of linebreak_blocks and cull_brs
BlankClass == {" ", NBSP, "\t"}

RECURSIVE lstrip_n(_, _)
\* number of leading characters of s that are in cs
lstrip_n(s, cs) ==
  IF s # <<>> /\ Head(s) \in cs THEN 1 + lstrip_n(Tail(s), cs) ELSE 0

RECURSIVE rstrip_n(_, _)
\* number of trailing characters of s that are in cs
rstrip_n(s, cs) ==
  IF s # <<>> /\ s[Len(s)] \in cs
  THEN 1 + rstrip_n(SubSeq(s, 1, Len(s) - 1), cs) ELSE 0

lstrip(s, cs) == SubSeq(s, lstrip_n(s, cs) + 1, Len(s))
rstrip(s, cs) == SubSeq(s, 1, Len(s) - rstrip_n(s, cs))
strip(s, cs) == lstrip(rstrip(s, cs), cs)
isspace(s) == s # <<>> /\ \A i \in 1..Len(s) : s[i] \in Whitespace
StartsWith(s, pre) == Len(s) >= Len(pre) /\ SubSeq(s, 1, Len(pre)) = pre

RECURSIVE Flatten(_)
\* concatenation of a sequence of sequences
Flatten(ss) == IF ss = <<>> THEN <<>> ELSE Head(ss) \o Flatten(Tail(ss))

RECURSIVE split(_, _)
\* str.split(sep), sep not empty: the pieces between the non-overlapping
\* occurrences of sep, found left to right
split(s, sep) ==
  LET hits == {i \in 1..(Len(s) - Len(sep) + 1) :
                 SubSeq(s, i, i + Len(sep) - 1) = sep}
  IN IF hits = {} THEN <<s>>
     ELSE LET i == CHOOSE h \in hits : \A g \in hits : h <= g
          IN <<SubSeq(s, 1, i - 1)>>
             \o split(SubSeq(s, i + Len(sep), Len(s)), sep)

-----------------------------------------------------------------------------
(* Tree: nodes, paths, identity                                            *)

None == "None"
Fresh == <<0>>
NoAttrs == [k \in {} |-> <<>>]

Text(s) == [name |-> None, string |-> s]
NewTag(n, a, c) == [name |-> n, id |-> Fresh, attrs |-> a, contents |-> c]
IsTag(x) == x.name # None
IsString(x) == x.name = None

Has(tag, k) == k \in DOMAIN tag.attrs
\* truthiness of tag.get(k): present and not the empty string
Truthy(tag, k) == Has(tag, k) /\ tag.attrs[k] # <<>>
SetAttr(tag, k, v) ==
  [tag EXCEPT !.attrs = [x \in DOMAIN @ \cup {k} |-> IF x = k THEN v ELSE @[x]]]
DelAttr(tag, k) ==
  [tag EXCEPT !.attrs = [x \in DOMAIN @ \ {k} |-> @[x]]]

RECURSIVE At(_, _)
\* the node at path p (child indices from the root t)
At(t, p) == IF p = <<>> THEN t ELSE At(t.contents[Head(p)], Tail(p))

RECURSIVE Splice(_, _, _)
\* the node at p replaced, in its parent, by the nodes ns
Splice(t, p, ns) ==
  IF Len(p) = 1
  THEN [t EXCEPT !.contents =
          SubSeq(@, 1, p[1] - 1) \o ns \o SubSeq(@, p[1] + 1, Len(@))]
  ELSE [t EXCEPT !.contents[p[1]] = Splice(@, Tail(p), ns)]

Put(t, p, n) == IF p = <<>> THEN n ELSE Splice(t, p, <<n>>)
Parent(p) == SubSeq(p, 1, Len(p) - 1)
Last(p) == p[Len(p)]

RECURSIVE TagPaths(_, _)
RECURSIVE KidTagPaths(_, _, _)
\* paths of the elements below t in document order (t at path pre)
TagPaths(t, pre) == KidTagPaths(t, pre, 1)
KidTagPaths(t, pre, i) ==
  IF i > Len(t.contents) THEN <<>>
  ELSE (IF IsTag(t.contents[i])
        THEN <<pre \o <<i>>>> \o TagPaths(t.contents[i], pre \o <<i>>)
        ELSE <<>>) \o KidTagPaths(t, pre, i + 1)

RECURSIVE MapKids(_, _, _, _)
MapKids(F(_, _), t, pre, i) ==
  IF i > Len(t.contents) THEN <<>>
  ELSE <<F(t.contents[i], pre \o <<i>>)>> \o MapKids(F, t, pre, i + 1)

RECURSIVE MarkAt(_, _)
\* every element gets its present path as id
MarkAt(t, pre) ==
  IF IsString(t) THEN t
  ELSE [t EXCEPT !.id = pre, !.contents = MapKids(MarkAt, t, pre, 1)]
Mark(t) == MarkAt(t, <<>>)

RECURSIVE UnmarkAt(_, _)
UnmarkAt(t, pre) ==
  IF IsString(t) THEN t
  ELSE [t EXCEPT !.id = Fresh, !.contents = MapKids(UnmarkAt, t, pre, 1)]
Unmark(t) == UnmarkAt(t, <<>>)

\* the present path of the element with identity id; NoPath when the
\* element is no longer in the tree
NoPath == <<0>>
Find(t, id) ==
  IF id = <<>> THEN <<>>
  ELSE LET ps == SelectSeq(TagPaths(t, <<>>), LAMBDA p : At(t, p).id = id)
       IN IF ps = <<>> THEN NoPath ELSE ps[1]

RECURSIVE ForEach(_, _, _)
\* for x in xs: t = Step(t, x); the test t = t has the tree of each round
\* evaluated before the next round starts, as the loop does
ForEach(Step(_, _), t, xs) ==
  IF t = t /\ xs # <<>> THEN ForEach(Step, Step(t, Head(xs)), Tail(xs)) ELSE t

\* ids of the elements selected among the descendants of the root, in
\* document order; Sel(t, p) decides on the element at path p of t
Select(t, Sel(_, _)) == SelectSeq(TagPaths(t, <<>>), LAMBDA p : Sel(t, p))

\* for tag in soup.select(...): Step(tree, path of tag); a tag that an
\* earlier step took out of the tree is passed over
ForSelected(t, Sel(_, _), Step(_, _)) ==
  LET OnId(u, id) == LET p == Find(u, id) IN IF p = NoPath THEN u ELSE Step(u, p)
      Loop(m) == ForEach(OnId, m, Select(m, Sel))
  IN IF t = t THEN Loop(Mark(t)) ELSE t

RECURSIVE smooth(_)
RECURSIVE SmoothSeq(_)
\* Tag.smooth(): adjacent strings become one string, in the whole subtree
SmoothSeq(c) ==
  IF c = <<>> THEN <<>>
  ELSE IF IsTag(c[1]) THEN <<smooth(c[1])>> \o SmoothSeq(Tail(c))
  ELSE IF Len(c) >= 2 /\ IsString(c[2])
       THEN SmoothSeq(<<Text(c[1].string \o c[2].string)>> \o SubSeq(c, 3, Len(c)))
       ELSE <<c[1]>> \o SmoothSeq(Tail(c))
smooth(t) == [t EXCEPT !.contents = SmoothSeq(@)]

\* the value None where a string is expected
NoString == <<None>>

RECURSIVE string(_)
\* Tag.string: the only string below the tag, through only children
string(t) ==
  IF Len(t.contents) # 1 THEN NoString
  ELSE IF IsString(t.contents[1]) THEN t.contents[1].string
  ELSE string(t.contents[1])

unwrap(t, p) == Splice(t, p, At(t, p).contents)
decompose(t, p) == Splice(t, p, <<>>)
insert_before(t, p, n) == Splice(t, p, <<n, At(t, p)>>)
insert_after(t, p, n) == Splice(t, p, <<At(t, p), n>>)
insert0(tag, n) == [tag EXCEPT !.contents = <<n>> \o @]
append(tag, n) == [tag EXCEPT !.contents = @ \o <<n>>]

\* ancestors of the node at p, nearest first, as paths (the root last)
RECURSIVE AncestorPaths(_)
AncestorPaths(p) ==
  IF p = <<>> THEN <<>> ELSE <<Parent(p)>> \o AncestorPaths(Parent(p))
HasAncestorNamed(t, p, names) ==
  \E i \in 1..(Len(p) - 1) : At(t, SubSeq(p, 1, i)).name \in names
HasDescendantNamed(t, names) ==
  \E q \in {TagPaths(t, <<>>)[i] : i \in 1..Len(TagPaths(t, <<>>))} :
     At(t, q).name \in names

RECURSIVE MapSeq(_, _)
MapSeq(F(_), s) == IF s = <<>> THEN <<>> ELSE <<F(Head(s))>> \o MapSeq(F, Tail(s))

RECURSIVE MapTags(_, _)
\* F applied to the element t and to every element below it
MapTags(F(_), t) ==
  IF IsString(t) THEN t
  ELSE LET u == F(t)
           G(x) == MapTags(F, x)
       IN [u EXCEPT !.contents = MapSeq(G, @)]

\* F applied to every element below the root (what soup.select("*") yields)
OnTags(F(_), t) ==
  LET G(x) == MapTags(F, x) IN [t EXCEPT !.contents = MapSeq(G, @)]

RECURSIVE MapStrings(_, _)
\* F applied to every string of the tree: string.replace_with(F(string))
MapStrings(F(_), t) ==
  IF IsString(t) THEN Text(F(t.string))
  ELSE LET G(x) == MapStrings(F, x) IN [t EXCEPT !.contents = MapSeq(G, @)]

RECURSIVE NextAfter(_, _)
\* the node that follows the subtree at p in document order
NextAfter(t, p) ==
  IF p = <<>> THEN NoPath
  ELSE IF Last(p) < Len(At(t, Parent(p)).contents)
       THEN Parent(p) \o <<Last(p) + 1>>
       ELSE NextAfter(t, Parent(p))

\* PageElement.next_element
next_element(t, p) ==
  IF IsTag(At(t, p)) /\ At(t, p).contents # <<>> THEN p \o <<1>>
  ELSE NextAfter(t, p)

-----------------------------------------------------------------------------
(* undo.py                                                                 *)

STYLE == "border:solid #FFCACA 1.0pt; padding:12.0pt 12.0pt 12.0pt 12.0pt; background:lightyellow"

tue_phising_note(t) ==
  LET Sel(u, p) == /\ At(u, p).name = "div"
                   /\ Has(At(u, p), "style")
                   /\ At(u, p).attrs["style"] = STYLE
  IN Unmark(ForSelected(t, Sel, decompose))

link_rewriting(t) ==
  LET F(a) == IF a.name = "a" /\ Has(a, "originalsrc")
              THEN DelAttr(SetAttr(a, "href", a.attrs["originalsrc"]), "originalsrc")
              ELSE a
  IN OnTags(F, t)

-----------------------------------------------------------------------------
(* html.py, css.py: the passes before sweat                                *)

BLOCKS ==
  {"address", "article", "aside", "blockquote", "canvas", "dd", "div", "dl",
   "dt", "fieldset", "figcaption", "figure", "footer", "form", "h1", "h2",
   "h3", "h4", "h5", "h6", "header", "hr", "li", "main", "nav", "noscript",
   "ol", "p", "pre", "section", "table", "tbody", "tfoot", "thead", "tr",
   "ul", "video"}

mark_blocks(t) ==
  LET Inherent(x) == IF x.name \in BLOCKS THEN SetAttr(x, "block", "inherent") ELSE x
      HasBr(x) ==
        IF HasDescendantNamed(x, {"br"})
        THEN IF Has(x, "block")
             THEN SetAttr(x, "block", x.attrs["block"] \o " br-descendants")
             ELSE SetAttr(x, "block", "br-descendants")
        ELSE x
  IN OnTags(HasBr, OnTags(Inherent, t))

PROPERTIES_OF_INTEREST ==
  {"border", "border-top", "border-bottom", "border-style", "margin",
   "margin-left", "margin-top", "margin-bottom", "padding", "padding-left",
   "padding-top", "padding-bottom", "font-weight", "font-style",
   "text-decoration", "list-style-type"}

\* What tinycss2.parse_blocks_contents and the unit table of css.py 60-86
\* yield for the style strings of the model: the declarations in order,
\* each value already joined.
Declarations(style) ==
  CASE style = "font-weight:bold" ->
         <<[name |-> "font-weight", value |-> <<"b", "o", "l", "d">>]>>
    [] style = "font-style:italic" ->
         <<[name |-> "font-style", value |-> <<"i", "t", "a", "l", "i", "c">>]>>
    [] style = "list-style-type:square" ->
         <<[name |-> "list-style-type", value |-> <<"s", "q", "u", "a", "r", "e">>]>>
    [] style = "list-style-type:'-'" ->
         <<[name |-> "list-style-type", value |-> <<"-">>]>>
    [] style = "margin:0" ->
         <<[name |-> "margin", value |-> <<"0">>]>>
    [] style = "margin:12pt 0 6pt; color:red" ->
         <<[name |-> "margin", value |-> <<"1", ".", "0", " ", "0", " ", "0", ".", "5">>],
           [name |-> "color", value |-> <<"r", "e", "d">>]>>
    [] style = "border-style:solid" ->
         <<[name |-> "border-style", value |-> <<"s", "o", "l", "i", "d">>]>>
    [] style = STYLE ->
         <<[name |-> "border", value |-> <<"s", "o", "l", "i", "d", " ", "#", " ", "0", ".", "0", "8">>],
           [name |-> "padding", value |-> <<"1", ".", "0", " ", "1", ".", "0", " ", "1", ".", "0", " ", "1", ".", "0">>],
           [name |-> "background", value |-> <<"l", "i", "g", "h", "t", "y", "e", "l", "l", "o", "w">>]>>
    [] OTHER -> <<>>

cssprops2htmlattrs(t) ==
  LET Decl(tag, d) == IF d.name \in PROPERTIES_OF_INTEREST
                      THEN SetAttr(tag, "css-" \o d.name, d.value) ELSE tag
      F(tag) == IF Has(tag, "style")
                THEN DelAttr(ForEach(Decl, tag, Declarations(tag.attrs["style"])), "style")
                ELSE tag
  IN OnTags(F, t)

\* if not tag.get("css-margin"): set the top and bottom margins that are unset
DefaultMargins(tag, v) ==
  IF Truthy(tag, "css-margin") THEN tag
  ELSE LET a == IF Truthy(tag, "css-margin-top") THEN tag
                ELSE SetAttr(tag, "css-margin-top", v)
       IN IF Truthy(a, "css-margin-bottom") THEN a
          ELSE SetAttr(a, "css-margin-bottom", v)

MS_STYLES == {"MsoNormal", "MsoListParagraph", "x_MsoNormal", "x_MsoListParagraph"}

inline_style_blocks(t) ==
  LET F(tag) == IF Has(tag, "class") /\ tag.attrs["class"] \cap MS_STYLES # {}
                THEN DefaultMargins(tag, <<"0">>) ELSE tag
  IN OnTags(F, t)

NONZERO_VERTICAL_MARGIN ==
  {"h1", "h2", "h3", "h4", "h5", "h6", "p", "blockquote", "ul", "ol", "dl",
   "dir", "menu", "fieldset", "form"}

add_defaults(t) ==
  LET Zero(u, p) == /\ At(u, p).name \in {"ol", "ul"}
                    /\ HasAncestorNamed(u, p, {"ol", "ul"})
      SetZero(u, p) == Put(u, p, DefaultMargins(At(u, p), <<"0">>))
      NonZero(tag) == IF tag.name \in NONZERO_VERTICAL_MARGIN
                      THEN DefaultMargins(tag, <<"1">>) ELSE tag
  IN OnTags(NonZero, Unmark(ForSelected(t, Zero, SetZero)))

css2html_markup(t) ==
  LET \* wrapper = soup.new_tag(name); wrapper.extend(tag.contents);
      \* tag.clear(); tag.append(wrapper)
      Wrap(name, tag) == [tag EXCEPT !.contents = <<NewTag(name, NoAttrs, @)>>]
      Bold(tag) ==
        IF /\ Has(tag, "css-font-weight")
           /\ StartsWith(tag.attrs["css-font-weight"], <<"b", "o", "l", "d">>)
           /\ tag.name \notin {"b", "strong"}
        THEN Wrap("b", tag) ELSE tag
      Italic(tag) ==
        IF /\ Has(tag, "css-font-style")
           /\ tag.attrs["css-font-style"] \in
                {<<"i", "t", "a", "l", "i", "c">>, <<"o", "b", "l", "i", "q", "u", "e">>}
           /\ tag.name \notin {"i", "em"}
        THEN Wrap("i", tag) ELSE tag
      Underline(tag) ==
        IF /\ Has(tag, "css-text-decoration")
           /\ StartsWith(tag.attrs["css-text-decoration"],
                         <<"u", "n", "d", "e", "r", "l", "i", "n", "e">>)
           /\ tag.name \notin {"u", "a"}
        THEN Wrap("u", tag) ELSE tag
  IN OnTags(Underline, OnTags(Italic, OnTags(Bold, t)))

sanitize_tree(t) ==
  LET Sel(u, p) == At(u, p).name \in {"head", "style", "meta"}
  IN Unmark(ForSelected(t, Sel, decompose))

br_type_original(t) ==
  LET Sel(u, p) == At(u, p).name = "br"
      Step(u, p) ==
        LET v == Put(u, p, SetAttr(At(u, p), "type", "original"))
            n == next_element(v, p)
        IN IF n # NoPath /\ IsString(At(v, n)) /\ At(v, n).string # <<>>
           THEN Put(v, n, Text(lstrip(At(v, n).string, Whitespace)))
           ELSE v
  IN Unmark(ForSelected(t, Sel, Step))

RECURSIVE Perms(_)
\* the orders in which Python may iterate a set of strings
Perms(S) ==
  IF S = {} THEN {<<>>}
  ELSE UNION {{<<x>> \o q : q \in Perms(S \ {x})} : x \in S}

NamesIn(t) == {At(t, TagPaths(t, <<>>)[i]).name : i \in 1..Len(TagPaths(t, <<>>))}
AttrsIn(t) ==
  UNION {DOMAIN At(t, TagPaths(t, <<>>)[i]).attrs : i \in 1..Len(TagPaths(t, <<>>))}

SPAN_LIKE == {"span", "font", "center"}

unwrap_spans(t) ==
  LET Span(u, p) == At(u, p).name \in SPAN_LIKE
      \* a > u, u:has(> a)
      LinkUnderlining(u, p) ==
        /\ At(u, p).name = "u"
        /\ \/ At(u, Parent(p)).name = "a"
           \/ \E i \in 1..Len(At(u, p).contents) : At(u, p).contents[i].name = "a"
  IN ForSelected(Unmark(ForSelected(t, Span, unwrap)), LinkUnderlining, unwrap)

\* the element names that match ^o:
MsOfficeNames == {"o:p"}

unwrap_msoffice_tags(t) ==
  LET Sel(u, p) == At(u, p).name \in MsOfficeNames
  IN ForSelected(t, Sel, unwrap)

REPLACEABLE == <<"0", "1", "2", "3", "4", "5", "6", "7", "8", "9", "+", "-", "n">>
SUB_REPLACEMENTS ==
  <<"sub0", "sub1", "sub2", "sub3", "sub4", "sub5", "sub6", "sub7", "sub8",
    "sub9", "sub+", "sub-", "subn">>
SUP_REPLACEMENTS ==
  <<"sup0", "sup1", "sup2", "sup3", "sup4", "sup5", "sup6", "sup7", "sup8",
    "sup9", "sup+", "sup-", "supn">>
SUP_NO_CARET ==
  {<<"s", "t">>, <<"n", "d">>, <<"r", "d">>, <<"s", "t", "e">>, <<"d", "e">>, <<"e">>}

unwrap_vertical_placement(t) ==
  LET IndexOf(c) == CHOOSE i \in 1..Len(REPLACEABLE) : REPLACEABLE[i] = c
      Single(s) == s # NoString /\ Len(s) = 1
                   /\ \E i \in 1..Len(REPLACEABLE) : REPLACEABLE[i] = s[1]
      Sub(u, p) ==
        LET s == string(At(u, p))
        IN IF Single(s) THEN Put(u, p, Text(<<SUB_REPLACEMENTS[IndexOf(s[1])]>>))
           ELSE unwrap(Put(u, p, insert0(At(u, p), Text(<<"_">>))), p)
      Sup(u, p) ==
        LET s == string(At(u, p))
        IN IF Single(s) THEN Put(u, p, Text(<<SUP_REPLACEMENTS[IndexOf(s[1])]>>))
           ELSE IF s \in SUP_NO_CARET THEN Put(u, p, Text(s))
           ELSE unwrap(Put(u, p, insert0(At(u, p), Text(<<"^">>))), p)
      IsSub(u, p) == At(u, p).name = "sub"
      IsSup(u, p) == At(u, p).name = "sup"
  IN ForSelected(Unmark(ForSelected(t, IsSub, Sub)), IsSup, Sup)

direct_unwraps(t) ==
  Unmark(smooth(unwrap_vertical_placement(Unmark(unwrap_msoffice_tags(
    Unmark(unwrap_spans(t)))))))

-----------------------------------------------------------------------------
(* css.py: margins and borders                                             *)

RECURSIVE SplitWs(_)
\* str.split(): the maximal runs of characters that are not whitespace
SplitWs(s) ==
  LET r == lstrip(s, Whitespace)
      n == IF \E i \in 1..Len(r) : r[i] \in Whitespace
           THEN (CHOOSE i \in 1..Len(r) :
                   r[i] \in Whitespace /\ \A j \in 1..(i - 1) : r[j] \notin Whitespace) - 1
           ELSE Len(r)
  IN IF r = <<>> THEN <<>>
     ELSE <<SubSeq(r, 1, n)>> \o SplitWs(SubSeq(r, n + 1, Len(r)))

Digits == <<"0", "1", "2", "3", "4", "5", "6", "7", "8", "9">>
IsDigit(c) == \E i \in 1..10 : Digits[i] = c
DigitVal(c) == (CHOOSE i \in 1..10 : Digits[i] = c) - 1

RECURSIVE Nat10(_)
\* the number a string of digits writes
Nat10(s) == IF s = <<>> THEN 0 ELSE 10 * Nat10(SubSeq(s, 1, Len(s) - 1)) + DigitVal(s[Len(s)])

RECURSIVE Pow10(_)
Pow10(n) == IF n = 0 THEN 1 ELSE 10 * Pow10(n - 1)

\* attr2float: float(str(attr)) as a fraction num/den, or NoFloat where
\* float() raises ValueError.  The strings of the model are plain decimals
\* (digits, at most one point); every other string counts as unparsable.
NoFloat == [num |-> 0 - 1, den |-> 1]
attr2float(s) ==
  LET dots == {i \in 1..Len(s) : s[i] = "."}
      ok == /\ s # <<>>
            /\ \A i \in 1..Len(s) : IsDigit(s[i]) \/ s[i] = "."
            /\ Cardinality(dots) <= 1
            /\ \E i \in 1..Len(s) : IsDigit(s[i])
      d == IF dots = {} THEN Len(s) + 1 ELSE CHOOSE i \in dots : TRUE
      whole == SubSeq(s, 1, d - 1)
      frac == SubSeq(s, d + 1, Len(s))
  IN IF ok THEN [num |-> Nat10(whole \o frac), den |-> Pow10(Len(frac))]
     ELSE NoFloat

\* the margin threshold of cssws2br, 0.34, in hundredths
BrThreshold == 34

\* size and size > 0.34
MakesBr(s) ==
  LET f == attr2float(s) IN f # NoFloat /\ f.num * 100 > BrThreshold * f.den

cssws2br(ws, t, order) ==
  LET top == "css-" \o ws \o "-top"
      bottom == "css-" \o ws \o "-bottom"
      HasWs(u, p) == Has(At(u, p), "css-" \o ws)
      \* styles[0] of an empty list
      Bad(tag) == /\ Has(tag, "css-" \o ws)
                  /\ SplitWs(tag.attrs["css-" \o ws]) = <<>>
                  /\ ~(Truthy(tag, top) /\ Truthy(tag, bottom))
      Specialize(tag) ==
        IF ~Has(tag, "css-" \o ws) THEN tag
        ELSE LET styles == SplitWs(tag.attrs["css-" \o ws])
                 a == IF Truthy(tag, top) THEN tag ELSE SetAttr(tag, top, styles[1])
             IN IF Truthy(a, bottom) THEN a
                ELSE SetAttr(a, bottom, styles[IF Len(styles) > 2 THEN 3 ELSE 1])
      Br(position) == NewTag("br", [k \in {"type"} |-> ws \o "-" \o position], <<>>)
      Position(u, position) ==
        LET S(v, p) == /\ Has(At(v, p), "css-" \o ws \o "-" \o position)
                       /\ Has(At(v, p), "block")
            Step(v, p) ==
              IF MakesBr(At(v, p).attrs["css-" \o ws \o "-" \o position])
              THEN IF position = "top" THEN insert_before(v, p, Br(position))
                   ELSE insert_after(v, p, Br(position))
              ELSE v
        IN Unmark(ForSelected(u, S, Step))
      bad == Select(t, LAMBDA u, p : Bad(At(u, p)))
  IN IF bad # <<>>
     THEN [soup |-> t, raised |-> "IndexError"]
     ELSE [soup |-> ForEach(Position, OnTags(Specialize, t), order), raised |-> ""]

\* css.cssmargin2br, which convert calls, is not defined in css.py: the
\* margin case of cssws2br
cssmargin2br(t, order) == cssws2br("margin", t, order)

borderstyle2border(t) ==
  LET Bad(tag) == Has(tag, "css-border-style")
                  /\ SplitWs(tag.attrs["css-border-style"]) = <<>>
      F(tag) ==
        IF ~Has(tag, "css-border-style") THEN tag
        ELSE LET styles == SplitWs(tag.attrs["css-border-style"])
             IN IF Len(styles) <= 2 THEN SetAttr(tag, "css-border", styles[1])
                ELSE IF styles[1] = styles[3] THEN SetAttr(tag, "css-border", styles[1])
                ELSE SetAttr(SetAttr(tag, "css-border-top", styles[1]),
                             "css-border-bottom", styles[3])
  IN IF Select(t, LAMBDA u, p : Bad(At(u, p))) # <<>>
     THEN [soup |-> t, raised |-> "IndexError"]
     ELSE [soup |-> OnTags(F, t), raised |-> ""]

STYLES ==
  {<<"d", "o", "t", "t", "e", "d">>, <<"d", "a", "s", "h", "e", "d">>,
   <<"s", "o", "l", "i", "d">>, <<"d", "o", "u", "b", "l", "e">>,
   <<"g", "r", "o", "o", "v", "e">>, <<"r", "i", "d", "g", "e">>,
   <<"i", "n", "s", "e", "t">>, <<"o", "u", "t", "s", "e", "t">>}

Contains(s, sub) ==
  \E i \in 1..(Len(s) - Len(sub) + 1) : SubSeq(s, i, i + Len(sub) - 1) = sub

BorderProperties == {"border", "border-top", "border-bottom"}

border2tag(t, order) ==
  LET Property(u, property) ==
        LET attr == "css-" \o property
            Sel(v, p) == /\ Has(At(v, p), "block")
                         /\ Has(At(v, p), attr)
                         /\ \E style \in STYLES : Contains(At(v, p).attrs[attr], style)
                         /\ At(v, p).name # "hr"
            before == property \in {"border", "border-top"}
            after == property \in {"border", "border-bottom"}
            Hr(v, p, position) ==
              NewTag("hr",
                     [k \in {"block", IF property = "border"
                                      THEN attr \o "-" \o position ELSE attr} |->
                        IF k = "block" THEN "inherent" ELSE At(v, p).attrs[attr]],
                     <<>>)
            Step(v, p) ==
              Splice(v, p, (IF before THEN <<Hr(v, p, "before")>> ELSE <<>>)
                           \o <<At(v, p)>>
                           \o (IF after THEN <<Hr(v, p, "after")>> ELSE <<>>))
        IN Unmark(ForSelected(u, Sel, Step))
  IN ForEach(Property, t, order)

-----------------------------------------------------------------------------
(* html.py: sweat                                                          *)

\* the ids of the elements Sel selects, in document order
SelectIds(t, Sel(_, _)) ==
  LET IdAt(p) == At(t, p).id IN MapSeq(IdAt, Select(t, Sel))

SWEATABLE == {"a", "b", "strong", "i", "em", "u", "s"}

\* One tag of the inner loop of sweat_whitespace; first is TRUE for the
\* tuple with child_index 0 and FALSE for the one with child_index -1.
\* st = [t |-> tree, sweating |-> flag].
SweatTag(first, st, id) ==
  LET Child(c) == IF first THEN c[1] ELSE c[Len(c)]
      Rest(c) == IF first THEN Tail(c) ELSE SubSeq(c, 1, Len(c) - 1)
      \* inserter(tag)(x): insert_before for index 0, insert_after for -1
      Inserted(p, x, newtag) ==
        Splice(st.t, p, IF first THEN <<x, newtag>> ELSE <<newtag, x>>)
      N(s) == IF first THEN lstrip_n(s, Whitespace) ELSE rstrip_n(s, Whitespace)
      Affix(s, n) == IF first THEN SubSeq(s, 1, n) ELSE SubSeq(s, Len(s) - n + 1, Len(s))
      Stripped(s) == IF first THEN lstrip(s, Whitespace) ELSE rstrip(s, Whitespace)
      \* case None: the child is the string s
      String(p, tag, s, affix) ==
        IF s # <<>>
        THEN IF affix # <<>>
             THEN [t |-> Inserted(p, Text(affix),
                                  [tag EXCEPT !.contents =
                                     IF first THEN <<Text(Stripped(s))>> \o Rest(@)
                                     ELSE Rest(@) \o <<Text(Stripped(s))>>]),
                   sweating |-> TRUE]
             ELSE st
        ELSE [t |-> Put(st.t, p, [tag EXCEPT !.contents = Rest(@)]), sweating |-> TRUE]
      Match(p, tag, child) ==
        IF child.name = "br"
        THEN [t |-> Inserted(p, child, [tag EXCEPT !.contents = Rest(@)]),
              sweating |-> TRUE]
        ELSE IF IsString(child)
        THEN String(p, tag, child.string, Affix(child.string, N(child.string)))
        ELSE st
      Tag(p, tag) ==
        IF tag.contents = <<>> THEN st ELSE Match(p, tag, Child(tag.contents))
      Path(p) == Tag(p, At(st.t, p))
  IN Path(Find(st.t, id))

\* one iteration of the while loop: both selection tuples, each over a
\* fresh soup.select(SWEATABLE)
SweatIteration(t) ==
  LET Sel(u, p) == At(u, p).name \in SWEATABLE
      First(st, id) == SweatTag(TRUE, st, id)
      Final(st, id) == SweatTag(FALSE, st, id)
      Second(a) == ForEach(Final, a, SelectIds(a.t, Sel))
  IN Second(ForEach(First, [t |-> t, sweating |-> FALSE], SelectIds(t, Sel)))

\* the loop left after its first iteration
SweatOnce(t, n) == [t |-> SweatIteration(t).t, n |-> n + 1]

RECURSIVE SweatLoop(_, _)
\* while sweating: ...; n counts the iterations made so far
SweatLoop(t, n) ==
  LET Again(r) ==
        IF r.sweating THEN SweatLoop(r.t, n + 1) ELSE [t |-> r.t, n |-> n + 1]
  IN Again(SweatIteration(t))

sweat_whitespace(t) == Unmark(smooth(SweatLoop(Mark(t), 0).t))

trim_whitespace(t) ==
  LET Lead(s) == IF Len(s) >= 2 /\ s[1] = " " /\ s[2] = " "
                 THEN <<" ">> \o lstrip(s, {" "}) ELSE s
      \* " {2,}$": $ matches at the end and before a newline that ends the string
      e(s) == IF s # <<>> /\ s[Len(s)] = "\n" THEN Len(s) - 1 ELSE Len(s)
      Trail(s) == IF \/ Len(s) >= 2 /\ s[Len(s)] = " " /\ s[Len(s) - 1] = " "
                     \/ e(s) >= 2 /\ s[e(s)] = " " /\ s[e(s) - 1] = " "
                  THEN rstrip(s, {" "}) \o <<" ">> ELSE s
  IN MapStrings(Trail, MapStrings(Lead, t))

MARKUP == {"b", "strong", "i", "em", "u", "s"}

sweat_markup(t, order) ==
  LET Name(u, markup_name) ==
        LET \* a > markup_name:only-child
            Sel(v, p) ==
              /\ At(v, p).name = markup_name
              /\ At(v, Parent(p)).name = "a"
              /\ Cardinality({i \in 1..Len(At(v, Parent(p)).contents) :
                                IsTag(At(v, Parent(p)).contents[i])}) = 1
            \* markup.parent.wrap(soup.new_tag(markup_name)); markup.unwrap()
            Step(v, p) ==
              LET w == unwrap(v, p)
              IN Put(w, Parent(p), NewTag(markup_name, NoAttrs, <<At(w, Parent(p))>>))
        IN Unmark(ForSelected(u, Sel, Step))
  IN ForEach(Name, t, order)

-----------------------------------------------------------------------------
(* html.py: block separation and pruning                                   *)

\* ^[ \xa0\t]*$
BlankMatch(s) ==
  LET e == IF s # <<>> /\ s[Len(s)] = "\n" THEN Len(s) - 1 ELSE Len(s)
  IN \A i \in 1..e : s[i] \in BlankClass

BlocksBr == NewTag("br", [k \in {"type"} |-> "blocks"], <<>>)

\* a sibling that Python finds true: a tag, or a string that is not empty
TrueNode(x) == IsTag(x) \/ x.string # <<>>

\* a marker before the block sibling only
LinebreakBefore(c, id) ==
  LET i == CHOOSE j \in 1..Len(c) : IsTag(c[j]) /\ c[j].id = id
  IN SubSeq(c, 1, i - 1)
     \o (IF i > 1 /\ TrueNode(c[i - 1]) THEN <<BlocksBr>> ELSE <<>>)
     \o SubSeq(c, i, Len(c))

\* one block_sibling of the inner loop, in the contents c of its parent
LinebreakSibling(c, id) ==
  LET i == CHOOSE j \in 1..Len(c) : IsTag(c[j]) /\ c[j].id = id
      previous == i > 1 /\ TrueNode(c[i - 1])
      next == /\ i < Len(c)
              /\ TrueNode(c[i + 1])
              /\ (IsString(c[i + 1]) \/ ~Has(c[i + 1], "block"))
  IN SubSeq(c, 1, i - 1)
     \o (IF previous THEN <<BlocksBr>> ELSE <<>>)
     \o <<c[i]>>
     \o (IF next THEN <<BlocksBr>> ELSE <<>>)
     \o SubSeq(c, i + 1, Len(c))

linebreak_blocks(t) ==
  LET \* *:has([block])
      Sel(u, p) ==
        \E i \in 1..Len(TagPaths(At(u, p), <<>>)) :
           Has(At(At(u, p), TagPaths(At(u, p), <<>>)[i]), "block")
      Step(u, p) ==
        LET parent == At(u, p)
            kept == SelectSeq(parent.contents,
                              LAMBDA x : ~(IsString(x) /\ BlankMatch(x.string)))
            blocks == SelectSeq(kept, LAMBDA x : IsTag(x) /\ Has(x, "block"))
            IdOf(x) == x.id
        IN Put(u, p, [parent EXCEPT !.contents =
                        ForEach(LinebreakSibling, kept, MapSeq(IdOf, blocks))])
  IN Unmark(ForSelected(t, Sel, Step))

VOIDS == {"br", "hr", "img", "col"}

Empty(tag) == tag.contents = <<>> \/ tag.contents = <<Text(<<>>)>>

\* one iteration of the while loop of remove_empty, soup.smooth() included;
\* some tells whether a tag was decomposed
RemoveEmptyIteration(t) ==
  LET m == Mark(t)
      Sel(u, p) == At(u, p).name \notin VOIDS
      Step(st, id) ==
        LET p == Find(st.t, id)
        IN IF p = NoPath THEN [t |-> st.t, some |-> TRUE]
           ELSE IF Empty(At(st.t, p)) THEN [t |-> decompose(st.t, p), some |-> TRUE]
           ELSE st
      r == ForEach(Step, [t |-> m, some |-> FALSE], SelectIds(m, Sel))
  IN [t |-> smooth(r.t), some |-> r.some]

\* the loop left after its first iteration
RemoveEmptyOnce(t, n) == [t |-> RemoveEmptyIteration(t).t, n |-> n + 1]

RECURSIVE RemoveEmptyLoop(_, _)
\* while maybe_some_empty_still: ...; n counts the iterations made so far
RemoveEmptyLoop(t, n) ==
  LET r == RemoveEmptyIteration(t)
  IN IF r.some THEN RemoveEmptyLoop(r.t, n + 1) ELSE [t |-> r.t, n |-> n + 1]

remove_empty(t) == Unmark(RemoveEmptyLoop(t, 0).t)

-----------------------------------------------------------------------------
(* undo.py: ms_sender_identification                                       *)

SENDER_ID_HREF ==
  <<"h", "t", "t", "p", "s", ":", "/", "/", "a", "k", "a", ".", "m", "s", "/",
    "L", "e", "a", "r", "n", "A", "b", "o", "u", "t", "S", "e", "n", "d", "e",
    "r", "I", "d", "e", "n", "t", "i", "f", "i", "c", "a", "t", "i", "o", "n">>

\* one anchor of the loop; st = [soup, raised, returned]
SenderIdAnchor(st, id) ==
  LET t == st.soup
      p == Find(t, id)
      c == At(t, Parent(p)).contents
      i == Last(p)
      IsBr(x) == IsTag(x) /\ x.name = "br"
      \* the nearest br at or before the anchor, else the first sibling
      bs == {j \in 1..i : IsBr(c[j])}
      b == IF bs = {} THEN 1 ELSE CHOOSE j \in bs : \A k \in bs : k <= j
      \* the nearest br at or after the anchor, else the last sibling
      as == {j \in i..Len(c) : IsBr(c[j])}
      a == IF as = {} THEN Len(c) ELSE CHOOSE j \in as : \A k \in as : j <= k
      first == IF IsBr(c[b]) /\ IsBr(c[a]) THEN b + 1 ELSE b
  IN IF st.raised # "" \/ st.returned \/ p = NoPath THEN st
     ELSE IF ~IsBr(c[b]) /\ ~IsBr(c[a])
     THEN \* a.parent.decompose(); return
          [soup |-> IF Len(p) = 1 THEN [t EXCEPT !.contents = <<>>]
                    ELSE decompose(t, Parent(p)),
           raised |-> "", returned |-> TRUE]
     ELSE IF a = Len(c)
     THEN \* tag = tag.next_sibling is None after the last sibling
          [soup |-> t, raised |-> "AttributeError", returned |-> FALSE]
     ELSE [soup |-> Put(t, Parent(p),
                        [At(t, Parent(p)) EXCEPT !.contents =
                           SubSeq(c, 1, first - 1) \o SubSeq(c, a + 1, Len(c))]),
           raised |-> "", returned |-> FALSE]

ms_sender_identification(t) ==
  LET m == Mark(t)
      Sel(u, p) == /\ At(u, p).name = "a"
                   /\ Has(At(u, p), "href")
                   /\ At(u, p).attrs["href"] = SENDER_ID_HREF
      r == ForEach(SenderIdAnchor, [soup |-> m, raised |-> "", returned |-> FALSE],
                   SelectIds(m, Sel))
  IN [soup |-> Unmark(r.soup), raised |-> r.raised]

-----------------------------------------------------------------------------
(* html.py: direct replacements                                            *)

RECURSIVE Repeat(_, _)
Repeat(c, n) == IF n = 0 THEN <<>> ELSE <<c>> \o Repeat(c, n - 1)

\* box-drawing characters
BoxDownRight == "box-dr"
BoxHorizontal == "box-h"
BoxUpLeft == "box-ul"
BoxDouble == "box-dd"
RuleWidth == 40

replace_hrs(t) ==
  LET Sel(u, p) == At(u, p).name = "hr"
      Step(u, p) ==
        Put(u, p, Text(
          IF Truthy(At(u, p), "css-border-before")
          THEN <<BoxDownRight>> \o Repeat(BoxHorizontal, RuleWidth - 1)
          ELSE IF Truthy(At(u, p), "css-border-after")
          THEN Repeat(BoxHorizontal, RuleWidth - 1) \o <<BoxUpLeft>>
          ELSE Repeat(BoxHorizontal, RuleWidth)))
  IN Unmark(ForSelected(t, Sel, Step))

HeadingLevel(name) ==
  CASE name = "h1" -> 1 [] name = "h2" -> 2 [] name = "h3" -> 3
    [] name = "h4" -> 4 [] name = "h5" -> 5 [] name = "h6" -> 6 [] OTHER -> 0

replace_headings(t) ==
  LET Sel(u, p) == HeadingLevel(At(u, p).name) > 0
      \* b = h.wrap(new b); h.unwrap(); b.insert_before(signpost)
      Step(u, p) ==
        Splice(u, p,
               <<Text(Repeat("#", HeadingLevel(At(u, p).name)) \o <<" ">>),
                 NewTag("b", NoAttrs, At(u, p).contents)>>)
  IN Unmark(ForSelected(t, Sel, Step))

MAILTO == <<"m", "a", "i", "l", "t", "o", ":">>
PHONE == <<"p", "h", "o", "n", "e", ":">>
HTTP == <<"h", "t", "t", "p", ":", "/", "/">>

\* one anchor of replace_anchors; st = [soup, raised]
ReplaceAnchor(st, id) ==
  LET t == st.soup
      p == Find(t, id)
      a == At(t, p)
      href == IF Has(a, "href") THEN a.attrs["href"] ELSE <<>>
      text == string(a)
      sep == strip(text, {"<", "/", ">"})
      href_parts == split(rstrip(href, {"/"}), sep)
      head == href_parts[1]
      tail == href_parts[2]
  IN IF st.raised # "" \/ p = NoPath THEN st
     ELSE IF text = NoString \/ text = <<>> THEN st
     ELSE IF href = <<>> THEN [st EXCEPT !.soup = unwrap(t, p)]
     ELSE IF sep = <<>> THEN [st EXCEPT !.raised = "ValueError"]
     ELSE IF Len(href_parts) # 2 THEN st
     ELSE IF tail = <<>> /\ head \in {<<>>, MAILTO, PHONE}
     THEN [st EXCEPT !.soup = Put(t, p, Text(text))]
     ELSE IF tail = <<>> /\ head = HTTP
     THEN [st EXCEPT !.soup = Put(t, p, Text(href))]
     ELSE st

replace_anchors(t) ==
  LET m == Mark(t)
      Sel(u, p) == At(u, p).name = "a"
      r == ForEach(ReplaceAnchor, [soup |-> m, raised |-> ""], SelectIds(m, Sel))
  IN [soup |-> Unmark(r.soup), raised |-> r.raised]

RECURSIVE DeepLast(_)
\* the last node of the subtree of x in document order
DeepLast(x) ==
  IF IsTag(x) /\ x.contents # <<>> THEN DeepLast(x.contents[Len(x.contents)]) ELSE x

unwrap_table_cells(t) ==
  LET Cell(x) == IsTag(x) /\ x.name \in {"th", "td"}
      \* *:has(> th, > td)
      Sel(u, p) == \E i \in 1..Len(At(u, p).contents) : Cell(At(u, p).contents[i])
      Step(u, p) ==
        LET c == At(u, p).contents
            \* child.previous of a child that has a previous sibling
            Tab(i) ==
              LET previous == DeepLast(c[i - 1])
                  names == {c[i].name} \cup
                           (IF TrueNode(previous) THEN {previous.name} ELSE {})
              IN Cardinality(names \ {"br", "tr", "thead", "tfoot"}) = 2
            Kid(i) == IF i > 1 /\ Tab(i) THEN <<Text(<<"\t">>), c[i]>> ELSE <<c[i]>>
        IN Put(u, p, [At(u, p) EXCEPT !.contents =
                        Flatten([i \in 1..Len(c) |-> Kid(i)])])
      IsCell(u, p) == Cell(At(u, p))
  IN Unmark(ForSelected(Unmark(ForSelected(t, Sel, Step)), IsCell, unwrap))

-----------------------------------------------------------------------------
(* html.py: merge_markup                                                   *)

EQUIVALENT(name) ==
  CASE name = "strong" -> "b" [] name = "em" -> "i" [] OTHER -> name

MERGEABLE == {"b", "i"}

\* Tag.__eq__: same name, attributes and contents; object identity aside
TagEq(x, y) == Unmark(x) = Unmark(y)

\* sibling_map: the selected tags grouped by parent, a dict keyed by Tag
\* (hashed by rendering, compared by TagEq); each entry is
\* [parent |-> id of the key, siblings |-> ids in document order]
SiblingMap(t, tag_name) ==
  LET Add(map, p) ==
        LET parent == At(t, Parent(p))
            hits == {i \in 1..Len(map) : TagEq(At(t, Find(t, map[i].parent)), parent)}
        IN IF hits = {}
           THEN Append(map, [parent |-> parent.id, siblings |-> <<At(t, p).id>>])
           ELSE LET i == CHOOSE h \in hits : TRUE
                IN [map EXCEPT ![i].siblings = Append(@, At(t, p).id)]
  IN ForEach(Add, <<>>, Select(t, LAMBDA u, p : At(u, p).name = tag_name))

\* the loop not entered
MergeNothing(t, pending, n) == [t |-> t, n |-> n]

RECURSIVE MergeSiblings(_, _, _)
\* while len(siblings) >= 2: ...; pending lists the siblings left to pop,
\* leftmost first; n counts the iterations made so far
MergeSiblings(t, pending, n) ==
  IF Len(pending) < 2 THEN [t |-> t, n |-> n]
  ELSE LET \* next_tag == siblings[-1], next_tag at i + 1 in the contents c1
           CanMerge(c1, i) ==
             /\ i < Len(c1)
             /\ IsTag(c1[i + 1])
             /\ TagEq(c1[i + 1], At(t, Find(t, pending[2])))
           Merged(c1, i, mergeable_tags) ==
             [c1[i] EXCEPT !.contents = @ \o mergeable_tags \o c1[i + 1].contents]
           Left(q, c2, can_merge) ==
             MergeSiblings(Put(t, q, [At(t, q) EXCEPT !.contents = c2]),
                           IF can_merge
                           THEN <<pending[1]>> \o SubSeq(pending, 3, Len(pending))
                           ELSE Tail(pending),
                           n + 1)
           Merge(q, c1, i, mergeable_tags, can_merge) ==
             Left(q,
                  IF can_merge
                  THEN SubSeq(c1, 1, i - 1) \o <<Merged(c1, i, mergeable_tags)>>
                       \o SubSeq(c1, i + 2, Len(c1))
                  ELSE c1,
                  can_merge)
           Next1(q, c1, i, mergeable_tags) ==
             Merge(q, c1, i, mergeable_tags, CanMerge(c1, i))
           \* ws_tag.decompose()
           Whitespace1(q, c, i, has_ws) ==
             Next1(q,
                   IF has_ws THEN SubSeq(c, 1, i) \o SubSeq(c, i + 2, Len(c)) ELSE c,
                   i,
                   IF has_ws THEN <<c[i + 1]>> ELSE <<>>)
           Tag(q, c, i) ==
             Whitespace1(q, c, i,
                         i < Len(c) /\ IsString(c[i + 1]) /\ isspace(c[i + 1].string))
           Path(p) == Tag(Parent(p), At(t, Parent(p)).contents, Last(p))
       IN Path(Find(t, pending[1]))

\* the body of the loop over MERGEABLE for one tag name
MergeName(t, tag_name) ==
  LET Nested(u, p) == At(u, p).name = tag_name /\ HasAncestorNamed(u, p, {tag_name})
      \* parent.smooth()
      Smoothed(v, q) == Put(v, q, smooth(At(v, q)))
      Parent1(u, entry) ==
        LET Merged(v) == Smoothed(v, Find(v, entry.parent))
        IN Merged(MergeSiblings(u, entry.siblings, 0).t)
      Parents(m) == Unmark(ForEach(Parent1, m, SiblingMap(m, tag_name)))
  IN Parents(Mark(Unmark(ForSelected(t, Nested, unwrap))))

merge_markup(t, order) ==
  LET Rename(tag) == [tag EXCEPT !.name = EQUIVALENT(@)]
  IN ForEach(MergeName, OnTags(Rename, smooth(t)), order)

-----------------------------------------------------------------------------
(* html.py: markup2text                                                    *)

MARKUP_MAP ==
  <<[selector |-> {"b", "strong"}, delimiter |-> "*"],
    [selector |-> {"i", "em"}, delimiter |-> "/"],
    [selector |-> {"u"}, delimiter |-> "_"],
    [selector |-> {"s"}, delimiter |-> "~"]>>

markup2text(t) ==
  LET Entry(u, e) ==
        LET Sel(v, p) == At(v, p).name \in e.selector
            Step(v, p) ==
              LET tag == At(v, p)
              IN IF Len(tag.contents) = 1 /\ tag.contents[1].name = "img"
                 THEN unwrap(v, p)
                 ELSE Splice(v, p,
                             smooth(append(insert0(tag, Text(<<e.delimiter>>)),
                                           Text(<<e.delimiter>>))).contents)
        IN Unmark(ForSelected(u, Sel, Step))
  IN ForEach(Entry, t, MARKUP_MAP)

-----------------------------------------------------------------------------
(* html.py: images and lists                                               *)

RECURSIVE Str10(_)
\* str(n) for n >= 0
Str10(n) == IF n < 10 THEN <<Digits[n + 1]>> ELSE Str10(n \div 10) \o <<Digits[(n % 10) + 1]>>

AUTOGEN ==
  <<"D", "e", "s", "c", "r", "i", "p", "t", "i", "o", "n", " ", "a", "u", "t",
    "o", "m", "a", "t", "i", "c", "a", "l", "l", "y", " ", "g", "e", "n", "e",
    "r", "a", "t", "e", "d">>

EndsWith(s, suf) ==
  Len(s) >= Len(suf) /\ SubSeq(s, Len(s) - Len(suf) + 1, Len(s)) = suf

\* up.unquote(op.basename(up.urlparse(img_ref).path)): the last segment of
\* the path of a URL scheme://host/path (no query, fragment or % escapes in
\* the URLs of the model)
UrlBasename(url) ==
  LET Min(S) == CHOOSE i \in S : \A j \in S : i <= j
      Max(S) == CHOOSE i \in S : \A j \in S : j <= i
      Slashes(s) == {i \in 1..Len(s) : s[i] = "/"}
      Basename(path) ==
        IF Slashes(path) = {} THEN path
        ELSE SubSeq(path, Max(Slashes(path)) + 1, Len(path))
      Path(rest) ==
        IF Slashes(rest) = {} THEN <<>>
        ELSE SubSeq(rest, Min(Slashes(rest)), Len(rest))
      Url(sl) ==
        IF sl = {} THEN Basename(url)
        ELSE Basename(Path(SubSeq(url, Min(sl) + 3, Len(url))))
  IN Url({i \in 1..(Len(url) - 2) : SubSeq(url, i, i + 2) = <<":", "/", "/">>})

\* one img of replace_imgs; st = [soup, refs], refs the keys of img_refs
\* in insertion order (the k-th key has ordinal k)
ReplaceImg(st, id) ==
  LET Spaced(s) == [i \in 1..Len(s) |-> IF s[i] = "_" THEN " " ELSE s[i]]
      AltText(img, img_ref) ==
        IF Truthy(img, "alt") /\ ~EndsWith(img.attrs["alt"], AUTOGEN)
        THEN img.attrs["alt"]
        ELSE Spaced(split(UrlBasename(img_ref), <<".">>)[1])
      Ordinal(refs, img_ref) == CHOOSE j \in 1..Len(refs) : refs[j] = img_ref
      Replaced(p, img, img_ref, refs) ==
        [soup |-> Put(st.soup, p,
                      Text(<<"{">> \o AltText(img, img_ref) \o <<"}", "{">>
                           \o Str10(Ordinal(refs, img_ref)) \o <<"}">>)),
         refs |-> refs]
      Ref(p, img, img_ref) ==
        Replaced(p, img, img_ref,
                 IF \E k \in 1..Len(st.refs) : st.refs[k] = img_ref THEN st.refs
                 ELSE Append(st.refs, img_ref))
      Img(p, img) ==
        Ref(p, img, IF Has(img, "src") THEN img.attrs["src"] ELSE <<>>)
      Path(p) == Img(p, At(st.soup, p))
  IN Path(Find(st.soup, id))

replace_imgs(t) ==
  LET Line(refs, k) == <<"{">> \o Str10(k) \o <<"}", ":", " ">> \o refs[k]
                       \o (IF k < Len(refs) THEN <<"\n">> ELSE <<>>)
      Result(r) ==
        [soup |-> Unmark(r.soup),
         img_refs |-> IF r.refs = <<>> THEN <<>>
                      ELSE <<"\n">> \o Repeat(BoxDouble, RuleWidth) \o <<"\n">>
                           \o Flatten([k \in 1..Len(r.refs) |-> Line(r.refs, k)])
                           \o <<"\n">> \o Repeat(BoxDouble, RuleWidth)]
      Marked(m) ==
        Result(ForEach(ReplaceImg, [soup |-> m, refs |-> <<>>],
                       SelectIds(m, LAMBDA u, p : At(u, p).name = "img")))
  IN Marked(Mark(t))

\* the glyphs of UL_SYMBOLS
BulletDisc == "u2022"
BulletCircle == "u25E6"
BulletSquare == "u25AA"
DISC == <<"d", "i", "s", "c">>

UL_SYMBOLS(symbol_string) ==
  CASE symbol_string = DISC -> <<BulletDisc>>
    [] symbol_string = <<"c", "i", "r", "c", "l", "e">> -> <<BulletCircle>>
    [] symbol_string = <<"s", "q", "u", "a", "r", "e">> -> <<BulletSquare>>
    [] OTHER -> symbol_string

\* the loop over the direct li children of one ul; st = [c, symbol_string]
UlItem(st, i) ==
  LET li == st.c[i]
      symbol_string == IF Truthy(li, "css-list-style-type")
                       THEN li.attrs["css-list-style-type"] ELSE st.symbol_string
  IN IF IsTag(li) /\ li.name = "li"
     THEN [c |-> [st.c EXCEPT ![i] =
                    insert0(li, Text(UL_SYMBOLS(symbol_string) \o <<" ">>))],
           symbol_string |-> symbol_string]
     ELSE st

Indices(c) == [i \in 1..Len(c) |-> i]

ul_compilation(t) ==
  LET Menu(tag) == IF tag.name = "menu" THEN [tag EXCEPT !.name = "ul"] ELSE tag
      Ul(ul) ==
        IF ul.name # "ul" THEN ul
        ELSE LET a == IF Truthy(ul, "type") THEN ul.attrs["type"] ELSE DISC
                 symbol_string == IF Truthy(ul, "css-list-style-type")
                                  THEN ul.attrs["css-list-style-type"] ELSE a
             IN [ul EXCEPT !.contents =
                   ForEach(UlItem, [c |-> @, symbol_string |-> symbol_string],
                           Indices(@)).c]
  IN smooth(OnTags(Ul, OnTags(Menu, t)))

LowerLatin ==
  <<"a", "b", "c", "d", "e", "f", "g", "h", "i", "j", "k", "l", "m", "n", "o",
    "p", "q", "r", "s", "t", "u", "v", "w">>
UpperLatin ==
  <<"A", "B", "C", "D", "E", "F", "G", "H", "I", "J", "K", "L", "M", "N", "O",
    "P", "Q", "R", "S", "T", "U", "V", "W">>
LowerRoman ==
  <<<<"i">>, <<"i", "i">>, <<"i", "i", "i">>, <<"i", "v">>, <<"v">>,
    <<"v", "i">>, <<"v", "i", "i">>, <<"v", "i", "i", "i">>, <<"i", "x">>,
    <<"x">>, <<"x", "i">>, <<"x", "i", "i">>, <<"x", "i", "i", "i">>,
    <<"x", "i", "v">>, <<"x", "v">>, <<"x", "v", "i">>, <<"x", "v", "i", "i">>,
    <<"x", "v", "i", "i", "i">>, <<"x", "i", "x">>, <<"x", "x">>>>
UpperRoman ==
  <<<<"I">>, <<"I", "I">>, <<"I", "I", "I">>, <<"I", "V">>, <<"V">>,
    <<"V", "I">>, <<"V", "I", "I">>, <<"V", "I", "I", "I">>, <<"I", "X">>,
    <<"X">>, <<"X", "I">>, <<"X", "I", "I">>, <<"X", "I", "I", "I">>,
    <<"X", "I", "V">>, <<"X", "V">>, <<"X", "V", "I">>, <<"X", "V", "I", "I">>,
    <<"X", "V", "I", "I", "I">>, <<"X", "I", "X">>, <<"X", "X">>>>
\* range(1, 27): the decimal table ends at 26
DecimalLast == 26

TYPEATTR2LST(type) ==
  CASE type = <<"1">> -> "decimal"
    [] type = <<"a">> -> "lower-latin"
    [] type = <<"A">> -> "upper-latin"
    [] type = <<"i">> -> "lower-roman"
    [] type = <<"I">> -> "upper-roman"
    [] OTHER -> "KeyError"

\* LST2INSDICES[lst]: the table of the numbering system, as strings
LST2INSDICES(lst) ==
  CASE lst = "decimal" -> [k \in 1..DecimalLast |-> Str10(k)]
    [] lst = "lower-latin" -> [k \in 1..Len(LowerLatin) |-> <<LowerLatin[k]>>]
    [] lst = "upper-latin" -> [k \in 1..Len(UpperLatin) |-> <<UpperLatin[k]>>]
    [] lst = "lower-roman" -> LowerRoman
    [] lst = "upper-roman" -> UpperRoman

\* int(s); NoInt where int() raises ValueError (the model's numerals are
\* digits with an optional minus sign)
NoInt == 0 - 1000000
int(s) ==
  LET neg == s # <<>> /\ s[1] = "-"
      d == IF neg THEN Tail(s) ELSE s
  IN IF d # <<>> /\ \A i \in 1..Len(d) : IsDigit(d[i])
     THEN (IF neg THEN 0 - Nat10(d) ELSE Nat10(d)) ELSE NoInt

\* one ol of ol_compilation; st = [soup, raised]
OlList(st, id) ==
  LET t == st.soup
      p == Find(t, id)
      ol == At(t, p)
      lst == IF Truthy(ol, "type") THEN TYPEATTR2LST(ol.attrs["type"]) ELSE "decimal"
      start == IF Truthy(ol, "start") THEN int(ol.attrs["start"]) ELSE 1
      table == LST2INSDICES(lst)
      Item(s, i) ==
        LET li == s.c[i]
            \* table[counter]: a negative index counts from the end
            k == IF s.counter >= 0 THEN s.counter + 1 ELSE Len(table) + s.counter + 1
            li_lst == IF Truthy(li, "css-list-style-type")
                      THEN li.attrs["css-list-style-type"]
                      ELSE table[k] \o <<".", " ">>
        IN IF s.raised # "" \/ ~(IsTag(li) /\ li.name = "li") THEN s
           ELSE IF k < 1 \/ k > Len(table) THEN [s EXCEPT !.raised = "IndexError"]
           ELSE [c |-> [s.c EXCEPT ![i] = insert0(li, Text(li_lst))],
                 counter |-> s.counter + 1, raised |-> ""]
      r == ForEach(Item, [c |-> ol.contents, counter |-> start - 1, raised |-> ""],
                   Indices(ol.contents))
  IN IF st.raised # "" THEN st
     ELSE IF lst = "KeyError" THEN [st EXCEPT !.raised = "KeyError"]
     ELSE IF start = NoInt THEN [st EXCEPT !.raised = "ValueError"]
     ELSE IF r.raised # "" THEN [st EXCEPT !.raised = r.raised]
     ELSE [st EXCEPT !.soup = Put(t, p, [ol EXCEPT !.contents = r.c])]

ol_compilation(t) ==
  LET m == Mark(t)
      r == ForEach(OlList, [soup |-> m, raised |-> ""],
                   SelectIds(m, LAMBDA u, p : At(u, p).name = "ol"))
  IN [soup |-> Unmark(smooth(r.soup)), raised |-> r.raised]

\* the indentation loop of list_compilations (html.py 472-476)
indent_lists(t) ==
  LET Sel(u, p) == At(u, p).name \in {"ul", "ol"}
      IsBr(u, p) == At(u, p).name = "br"
      Tab == Text(<<"\t">>)
      Step(u, p) ==
        LET v == Put(u, p, insert0(At(u, p), Tab))
            brs == SelectSeq(TagPaths(At(v, p), <<>>),
                             LAMBDA q : At(At(v, p), q).name = "br")
            \* brs dealt with last to first: an insertion moves no br
            \* that is still to come, and br.next of a br does not
            \* depend on the tabs put after other brs
            Br(w, k) ==
              LET q == p \o brs[Len(brs) + 1 - k]
                  n == next_element(w, q)
              IN IF n # NoPath /\ TrueNode(At(w, n)) THEN insert_after(w, q, Tab) ELSE w
        IN ForEach(Br, v, Indices(brs))
  IN Unmark(ForSelected(t, Sel, Step))

-----------------------------------------------------------------------------
(* html.py: tags2text                                                      *)

LINKBLOCKABLE == {"body", "section", "div", "p", "ol", "ul"}

\* link_map: the pairs [ref, k] in insertion order
InLinkMap(link_map, ref) == \E i \in 1..Len(link_map) : link_map[i].ref = ref
LinkOrdinal(link_map, ref) ==
  link_map[CHOOSE i \in 1..Len(link_map) : link_map[i].ref = ref].k

RECURSIVE LinkBlockOf(_, _)
\* the while loop that looks for the link block from candidate upwards:
\* its path, or NoPath where the loop runs off the root (candidate is None)
LinkBlockOf(t, candidate) ==
  IF At(t, candidate).name = "body"
     \/ (At(t, candidate).name \in LINKBLOCKABLE
         /\ At(t, Parent(candidate)).name \in LINKBLOCKABLE)
  THEN candidate
  ELSE IF candidate = <<>> THEN NoPath
  ELSE LinkBlockOf(t, Parent(candidate))

LinkBr(type) == NewTag("br", [k \in {"type"} |-> type], <<>>)

\* the anchor branch of process_tag; w = [soup, link_counter,
\* link_block_tag, link_map, log, raised]
ProcessAnchor(w, p) ==
  LET Get(tag, k) == IF Has(tag, k) THEN tag.attrs[k] ELSE <<>>
      Ref(href, title) ==
        IF title = <<>> \/ title = href THEN href
        ELSE href \o <<" ", "(">> \o title \o <<")">>
      Text1(tag, k) ==
        append(insert0(tag, Text(<<"[">>)), Text(<<"]", "[">> \o Str10(k) \o <<"]">>))
      Numbered1(tag, ref, new, block, link_map, k) ==
        [soup |-> Splice(w.soup, p, Text1(tag, k).contents),
         link_counter |-> IF new THEN w.link_counter + 1 ELSE w.link_counter,
         link_block_tag |-> block,
         link_map |-> link_map,
         log |-> Append(w.log, [op |-> "anchor", tag |-> tag.id, ref |-> ref,
                                k |-> k, new |-> new, block |-> block,
                                enclosing |-> [i \in 1..Len(p) |->
                                                 At(w.soup, SubSeq(p, 1, i - 1)).id]]),
         raised |-> ""]
      Mapped(tag, ref, new, block, link_map) ==
        Numbered1(tag, ref, new, block, link_map, LinkOrdinal(link_map, ref))
      Found(tag, ref, new, found) ==
        IF new /\ w.link_block_tag = NoPath /\ found = NoPath
        THEN [w EXCEPT !.raised = "AttributeError"]
        ELSE Mapped(tag, ref, new,
                    IF new /\ w.link_block_tag = NoPath THEN At(w.soup, found).id
                    ELSE w.link_block_tag,
                    IF new THEN Append(w.link_map, [ref |-> ref, k |-> w.link_counter])
                    ELSE w.link_map)
      Keyed(tag, ref) ==
        Found(tag, ref, ~InLinkMap(w.link_map, ref), LinkBlockOf(w.soup, p))
      Tag(tag) == Keyed(tag, Ref(Get(tag, "href"), Get(tag, "title")))
  IN Tag(At(w.soup, p))

\* the reference lines appended, the registry and the scope left as they are
CloseKeepingRegistry(w, p) ==
  LET Ref(e) == <<LinkBr("linkref"),
                  Text(<<"\t", "[">> \o Str10(e.k) \o <<"]", ":", " ">> \o e.ref)>>
      Closed(tag) ==
        [tag EXCEPT !.contents = @ \o <<LinkBr("linkblock-pre")>>
                                   \o Flatten(MapSeq(Ref, w.link_map))
                                   \o <<LinkBr("linkblock-post")>>]
  IN [w EXCEPT
        !.soup = Put(@, p, Closed(At(@, p))),
        !.log = Append(@, [op |-> "close", tag |-> At(w.soup, p).id, refs |-> w.link_map])]

\* the link block branch of process_tag
CloseLinkBlock(w, p) ==
  LET t == w.soup
      Ref(e) == <<LinkBr("linkref"),
                  Text(<<"\t", "[">> \o Str10(e.k) \o <<"]", ":", " ">> \o e.ref)>>
      \* sorted by ordinal: link_map is in insertion order, ordinals rising
      refs == Flatten(MapSeq(Ref, w.link_map))
  IN [w EXCEPT
        !.soup = Put(t, p, [At(t, p) EXCEPT !.contents =
                              @ \o <<LinkBr("linkblock-pre")>> \o refs
                                \o <<LinkBr("linkblock-post")>>]),
        !.link_map = <<>>,
        !.link_block_tag = NoPath,
        !.log = Append(@, [op |-> "close", tag |-> At(t, p).id, refs |-> w.link_map])]

RECURSIVE process_tag(_, _)
process_tag(w, id) ==
  IF w.raised # "" THEN w
  ELSE LET IdOf(x) == x.id
           Children(p0) == SelectSeq(At(w.soup, p0).contents, IsTag)
           Branch(s, p) ==
             IF At(s.soup, p).name = "a" THEN ProcessAnchor(s, p)
             ELSE IF id = s.link_block_tag THEN CloseLinkBlock(s, p)
             ELSE s
           \* tag.smooth(), when the tag has children
           Smoothed(r, p) == Branch([r EXCEPT !.soup = Put(@, p, smooth(At(@, p)))], p)
           Recursed(r) == IF r.raised # "" THEN r ELSE Smoothed(r, Find(r.soup, id))
       IN Recursed(ForEach(process_tag, w, MapSeq(IdOf, Children(Find(w.soup, id)))))

\* the first ordinal tags2text hands out
FirstLinkOrdinal == 1

tags2text(t) ==
  LET Result(r) ==
        [soup |-> Unmark(r.soup), raised |-> r.raised, log |-> r.log,
         link_map |-> r.link_map, link_block_tag |-> r.link_block_tag]
  IN Result(process_tag([soup |-> Mark(t), link_counter |-> FirstLinkOrdinal,
                         link_block_tag |-> NoPath, link_map |-> <<>>,
                         log |-> <<>>, raised |-> ""], <<>>))

-----------------------------------------------------------------------------
(* html.py: the last passes                                                *)

unwrap_remaining(t) ==
  LET Sel(u, p) == At(u, p).name \notin {"br", "blockquote"}
  IN Unmark(ForSelected(t, Sel, unwrap))

RECURSIVE CullWhitespace(_)
\* the first loop of cull_brs: a blank string between two br siblings goes
CullWhitespace(t) ==
  IF IsString(t) THEN t
  ELSE LET c == t.contents
           IsBr(x) == IsTag(x) /\ x.name = "br"
           Goes(i) == /\ IsString(c[i]) /\ BlankMatch(c[i].string)
                      /\ i > 1 /\ i < Len(c)
                      /\ IsBr(c[i - 1]) /\ IsBr(c[i + 1])
           Kid(i) == IF Goes(i) THEN <<>> ELSE <<CullWhitespace(c[i])>>
       IN [t EXCEPT !.contents = Flatten([i \in 1..Len(c) |-> Kid(i)])]

BrType(br) == IF Has(br, "type") THEN br.attrs["type"] ELSE "None"

cull_brs(t) ==
  LET Sel(u, p) == At(u, p).name = "br"
      Step(u, p) ==
        LET c == At(u, Parent(p)).contents
            i == Last(p)
            IsBr(x) == IsTag(x) /\ x.name = "br"
            types == {BrType(c[i - 1]), BrType(c[i]), BrType(c[i + 1])}
        IN IF i > 1 /\ i < Len(c) /\ IsBr(c[i - 1]) /\ IsBr(c[i + 1])
           THEN IF \/ Cardinality(types) = 3
                   \/ Cardinality(types) = 2 /\ BrType(c[i]) = "original"
                THEN decompose(u, Parent(p) \o <<i - 1>>)
                ELSE u
           ELSE u
  IN Unmark(ForSelected(CullWhitespace(t), Sel, Step))

QUOTE == <<">", " ">>

RECURSIVE AfterEachBr(_, _)
\* for br in tag.select("br"): br.insert_after(s)
AfterEachBr(tag, s) ==
  LET Kid(x) == IF IsString(x) THEN <<x>>
                ELSE IF x.name = "br" THEN <<AfterEachBr(x, s), Text(s)>>
                ELSE <<AfterEachBr(x, s)>>
  IN [tag EXCEPT !.contents = Flatten(MapSeq(Kid, @))]

replace_blockquotes(t) ==
  LET Sel(u, p) == At(u, p).name = "blockquote"
      Step(u, p) ==
        Splice(u, p, AfterEachBr(insert0(At(u, p), Text(QUOTE)), QUOTE).contents)
  IN Unmark(ForSelected(t, Sel, Step))

brs2linebreaks(t) ==
  LET Sel(u, p) == At(u, p).name = "br"
      Step(u, p) == Put(u, p, Text(<<"\n">>))
  IN smooth(Unmark(ForSelected(t, Sel, Step)))

\* the text returned as it stands, no newline stripped
OutputUnstripped(t, refs) ==
  LET s == IF string(t) = NoString THEN <<"N", "o", "n", "e">> ELSE string(t)
  IN IF refs # <<>> THEN s \o <<"\n">> \o refs ELSE s

\* convert, lines 41-44
Output(t, refs) ==
  LET s == IF string(t) = NoString THEN <<"N", "o", "n", "e">> ELSE string(t)
      out == strip(s, {"\n"})
  IN IF refs # <<>> THEN out \o <<"\n">> \o refs ELSE out

-----------------------------------------------------------------------------
(* Documents: what html5lib yields for the cleaned-up input                *)

\* how many siblings a paragraph of inline markup has at most
MaxSiblings == 2
\* how many items an ordered list has at most
MaxItems == 3
\* how many paragraphs (link block scopes) a document of links has at most
MaxScopes == 2
\* how many anchors a paragraph of links has at most
MaxAnchors == 2
\* how deep blockquotes nest at most
MaxDepth == 2

E(n, c) == NewTag(n, NoAttrs, c)
Attr1(k, v) == [x \in {k} |-> v]
Attr2(k1, v1, k2, v2) == [x \in {k1, k2} |-> IF x = k1 THEN v1 ELSE v2]
T(c) == Text(<<c>>)
Br == E("br", <<>>)

\* soup = bs4.BeautifulSoup(..., "html5lib"): html, head and body are there
Doc(c) == E("[document]", <<E("html", <<E("head", <<>>), E("body", c)>>)>>)

SeqsUpTo(S, n) == UNION {[1..k -> S] : k \in 1..n}

U1 == <<"u", "1">>
XCom == <<"x", ".", "c", "o", "m">>
HttpXCom == HTTP \o XCom
HttpXComDoc == HttpXCom \o <<"/", "d", "o", "c">>
Anchor(href, c) == NewTag("a", Attr1("href", href), c)
TitledAnchor(href, title, c) == NewTag("a", Attr2("href", href, "title", title), c)
Styled(style, n, c) == NewTag(n, Attr1("style", style), c)

\* inline markup, as minify-html and html5lib leave it
Markups ==
  {E("b", <<T("x")>>), E("b", <<Text(<<" ", "x", " ">>)>>), E("b", <<T(" ")>>),
   E("b", <<Br, T("x")>>), E("b", <<E("i", <<Text(<<" ", "x">>)>>)>>),
   E("i", <<E("b", <<T("y")>>)>>), E("strong", <<T("x")>>),
   Anchor(U1, <<E("b", <<T("x")>>)>>), Anchor(U1, <<Text(<<" ", "x", " ">>)>>),
   T("z")}

Separators == {<<>>, <<T(" ")>>}

RECURSIVE Join(_, _)
Join(ms, sep) ==
  IF Len(ms) <= 1 THEN ms ELSE <<ms[1]>> \o sep \o Join(Tail(ms), sep)

InlineDocs ==
  {Doc(<<E("p", Join(ms, sep))>>) :
     ms \in SeqsUpTo(Markups, MaxSiblings), sep \in Separators}

Hello == <<"H", "e", "l", "l", "o", " ">>
World == <<"w", "o", "r", "l", "d">>
HelloDoc == Doc(<<E("p", <<Text(Hello), E("b", <<Text(World)>>), T("!")>>)>>)
HelloOutput == Hello \o <<"*">> \o World \o <<"*", "!">>

\* <p><i><b>x</b></i><i><b>y</b></i><b><i>z</i></b><b><i>w</i></b></p>
CrossedDoc ==
  Doc(<<E("p", <<E("i", <<E("b", <<T("x")>>)>>), E("i", <<E("b", <<T("y")>>)>>),
                 E("b", <<E("i", <<T("z")>>)>>), E("b", <<E("i", <<T("w")>>)>>)>>)>>)

\* <h1>&nbsp;x</h1>
HeadingDoc == Doc(<<E("h1", <<Text(<<NBSP, "x">>)>>)>>)
BlockInInlineDocs ==
  {Doc(<<E("b", <<E("p", <<T("x")>>), T("y")>>)>>),
   Doc(<<E("b", <<E("ul", <<E("li", <<T("x")>>)>>)>>)>>),
   Doc(<<E("h2", <<E("b", <<T("x")>>)>>), E("p", <<T("y")>>)>>)}

\* <p><span></span></p>
SpanDoc == Doc(<<E("p", <<E("span", <<>>)>>)>>)
\* the empty input: html5lib still builds html, head and body
EmptyDoc == Doc(<<>>)
EmptyDocs ==
  {SpanDoc, EmptyDoc, Doc(<<E("div", <<E("i", <<>>)>>)>>),
   Doc(<<E("div", <<E("p", <<E("b", <<E("i", <<>>)>>)>>)>>), T("x")>>),
   Doc(<<E("p", <<Br>>)>>),
   Doc(<<E("div", <<E("hr", <<>>)>>)>>),
   Doc(<<E("table", <<E("colgroup", <<E("col", <<>>)>>),
                      E("tbody", <<E("tr", <<E("td", <<>>), E("td", <<T("x")>>)>>)>>)>>)>>),
   Doc(<<E("p", <<T("x"), E("b", <<>>), T("y")>>)>>),
   Doc(<<E("div", <<E("p", <<>>), E("p", <<E("u", <<T(" ")>>)>>)>>)>>)}

QuoteContents ==
  {<<T("a")>>, <<T("a"), Br, T("b")>>, <<T("a"), Br>>, <<E("p", <<T("a")>>)>>}

RECURSIVE Quotes(_)
\* blockquotes nested up to d deep
Quotes(d) ==
  IF d = 1 THEN {E("blockquote", c) : c \in QuoteContents}
  ELSE Quotes(d - 1) \cup
       {E("blockquote", w) :
          w \in UNION {{<<q>>, <<T("o"), q>>, <<q, T("o")>>} : q \in Quotes(d - 1)}}

\* <blockquote>Line1<br>Line2</blockquote>, the lines one character long
LinesDoc == Doc(<<E("blockquote", <<T("a"), Br, T("b")>>)>>)
\* <a href="u1"><blockquote>a</blockquote></a>
LinkedQuoteDoc == Doc(<<Anchor(U1, <<E("blockquote", <<T("a")>>)>>)>>)

QuoteDocs ==
  UNION {{Doc(<<q>>), Doc(<<q, T("c")>>), Doc(<<E("b", <<q>>)>>),
          Doc(<<Anchor(U1, <<q>>)>>)} : q \in Quotes(MaxDepth)}

OlAttrs(type, start) ==
  [k \in (IF type = <<>> THEN {} ELSE {"type"})
         \cup (IF start = <<>> THEN {} ELSE {"start"}) |->
     IF k = "type" THEN type ELSE start]

Items(n) == [i \in 1..n |-> E("li", <<T("x")>>)]

\* the type attributes and the start attributes of the lists (<<>>: none)
OlTypes == {<<>>, <<"a">>, <<"i">>, <<"I">>}
OlStarts == {<<>>, <<"0">>, <<"3">>, <<"2", "2">>, <<"2", "5">>}

\* <ol type="i" start="3"><li>x</li><li>x</li><li>x</li></ol>
RomanDoc == Doc(<<NewTag("ol", OlAttrs(<<"i">>, <<"3">>), Items(3))>>)
\* <ol type="a" start="22"><li>x</li><li>x</li><li>x</li></ol>
LatinDoc == Doc(<<NewTag("ol", OlAttrs(<<"a">>, <<"2", "2">>), Items(3))>>)

ListDocs ==
  {Doc(<<NewTag("ol", OlAttrs(type, start), Items(n))>>) :
     type \in OlTypes, start \in OlStarts, n \in 1..MaxItems}
  \cup
  {Doc(<<E("ul", <<E("li", <<T("x")>>), E("li", <<T("y"), Br, T("z")>>)>>)>>),
   Doc(<<E("ul", <<E("li", <<T("x"), E("ol", Items(1))>>)>>)>>),
   Doc(<<NewTag("ul", Attr1("type", <<"s", "q", "u", "a", "r", "e">>),
                <<Styled("list-style-type:'-'", "li", <<T("x")>>),
                  E("li", <<T("y")>>)>>)>>),
   Doc(<<E("ol", <<Styled("list-style-type:'-'", "li", <<T("x")>>),
                   E("li", <<T("y")>>)>>)>>),
   Doc(<<NewTag("ol", OlAttrs(<<"A">>, <<"1">>), Items(1))>>),
   Doc(<<NewTag("ol", OlAttrs(<<"1">>, <<"1", "9">>), Items(1))>>),
   Doc(<<NewTag("ol", OlAttrs(<<"x">>, <<>>), Items(1))>>)}

\* anchors that tags2text numbers: one destination, with no title and with
\* a title of its own
Numbered == {Anchor(U1, <<T("x")>>), TitledAnchor(U1, <<"t">>, <<T("x")>>)}

\* <p><a href="u1">x</a><a href="u1" title="u1">x</a></p>
SameTitleDoc ==
  Doc(<<E("p", <<Anchor(U1, <<T("x")>>), TitledAnchor(U1, U1, <<T("x")>>)>>)>>)

LinkParagraphs == {E("p", as) : as \in SeqsUpTo(Numbered, MaxAnchors)}
LinkDocs ==
  {Doc(ps) : ps \in SeqsUpTo(LinkParagraphs, MaxScopes)} \cup {SameTitleDoc}

\* <p><a href="u1">x</a></p><p><a href="u1">x</a></p>
TwoScopesDoc ==
  Doc(<<E("p", <<Anchor(U1, <<T("x")>>)>>), E("p", <<Anchor(U1, <<T("x")>>)>>)>>)

\* <p><a href="http://x.com">x.com</a> <a href="http://x.com">x.com</a></p>
TwiceDoc ==
  Doc(<<E("p", <<Anchor(HttpXCom, <<Text(XCom)>>), T(" "),
                 Anchor(HttpXCom, <<Text(XCom)>>)>>)>>)
\* <p><a href="http://x.com/doc">doc</a></p>
SegmentDoc == Doc(<<E("p", <<Anchor(HttpXComDoc, <<Text(<<"d", "o", "c">>)>>)>>)>>)

AnchorDocs ==
  {TwiceDoc, SegmentDoc} \cup
  {Doc(<<E("p", <<Anchor(a.href, <<Text(a.text)>>)>>)>>) :
     a \in {[href |-> HttpXCom, text |-> HttpXCom],
            [href |-> HttpXCom \o <<"/">>, text |-> XCom],
            [href |-> MAILTO \o <<"x">>, text |-> <<"x">>],
            [href |-> PHONE \o <<"1">>, text |-> <<"1">>],
            [href |-> U1, text |-> <<"/">>],
            [href |-> XCom, text |-> <<"<", "x", ".", "c", "o", "m", ">">>],
            [href |-> <<>>, text |-> <<"x">>]}}

\* documents that give the other passes work
OtherDocs ==
  {Doc(<<Styled(STYLE, "div", <<T("x")>>), E("p", <<T("y")>>)>>),
   Doc(<<Styled("border-style:solid", "div", <<T("x")>>)>>),
   Doc(<<Styled("margin:0", "p", <<T("x")>>), Styled("font-weight:bold", "p", <<T("y")>>)>>),
   Doc(<<E("p", <<T("x"), E("sup", <<T("2")>>), E("sub", <<T("i"), E("i", <<T("j")>>)>>)>>)>>),
   Doc(<<E("p", <<NewTag("img", Attr1("src", HttpXComDoc), <<>>)>>)>>),
   Doc(<<NewTag("p", [k \in {"class"} |-> {"MsoNormal"}], <<T("x"), E("o:p", <<>>)>>),
         E("hr", <<>>)>>),
   Doc(<<E("p", <<NewTag("a", Attr2("href", U1, "originalsrc", XCom), <<Text(XCom)>>)>>)>>),
   Doc(<<E("div", <<T("x"), Br, Anchor(SENDER_ID_HREF, <<T("y")>>), Br, T("z")>>)>>)}

\* <div>x</div><div>y</div>, also with a no-break space and with a text between
BlockDocs ==
  {Doc(<<E("div", <<T("x")>>)>> \o sep \o <<E("div", <<T("y")>>)>>) :
     sep \in {<<>>, <<Text(<<NBSP>>)>>, <<T("t")>>}}

\* <ul><li>One</li><li>Two</li></ul>
OneTwoDoc ==
  Doc(<<E("ul", <<E("li", <<Text(<<"O", "n", "e">>)>>),
                  E("li", <<Text(<<"T", "w", "o">>)>>)>>)>>)
\* <ul><li><ul><li>y</li></ul></li></ul>
NestedFirstDoc == Doc(<<E("ul", <<E("li", <<E("ul", <<E("li", <<T("y")>>)>>)>>)>>)>>)
\* unordered lists without hints, nested lists after a text of the item and
\* as its first child
UlDocs ==
  {OneTwoDoc, NestedFirstDoc,
   Doc(<<E("ul", <<E("li", <<T("x"), E("ul", <<E("li", <<T("y")>>)>>)>>)>>)>>),
   Doc(<<E("ul", <<E("li", <<T("x"),
                             E("ul", <<E("li", <<T("y"), Br, T("z")>>)>>)>>),
                   E("li", <<T("w")>>)>>)>>)}

\* <p><b>x</b><b>y</b> <b>z</b></p>
ThreeBoldDoc ==
  Doc(<<E("p", <<E("b", <<T("x")>>), E("b", <<T("y")>>), T(" "), E("b", <<T("z")>>)>>)>>)

U2 == <<"u", "2">>
\* <div><p><a href="u1">x</a></p><a href="u2">y</a><p><a href="u1">x</a></p></div>
DivScopeDoc ==
  Doc(<<E("div", <<E("p", <<Anchor(U1, <<T("x")>>)>>), Anchor(U2, <<T("y")>>),
                   E("p", <<Anchor(U1, <<T("x")>>)>>)>>)>>)
\* anchors right below body, in a list item and in a table cell
ScopeDocs ==
  {DivScopeDoc,
   Doc(<<Anchor(U1, <<T("x")>>), E("p", <<Anchor(U2, <<T("y")>>)>>)>>),
   Doc(<<E("ul", <<E("li", <<Anchor(U1, <<T("x")>>)>>),
                   E("li", <<Anchor(U2, <<T("y")>>), Anchor(U1, <<T("x")>>)>>)>>)>>),
   Doc(<<E("table", <<E("tbody", <<E("tr", <<E("td", <<Anchor(U1, <<T("x")>>)>>),
                                            E("td", <<Anchor(U2, <<T("y")>>)>>)>>)>>)>>),
         E("p", <<Anchor(U1, <<T("x")>>)>>)>>)}

Inputs ==
  UlDocs \cup {ThreeBoldDoc} \cup ScopeDocs \cup InlineDocs \cup {HelloDoc, CrossedDoc, HeadingDoc} \cup BlockInInlineDocs
  \cup BlockDocs
  \cup EmptyDocs \cup QuoteDocs \cup ListDocs \cup LinkDocs \cup AnchorDocs
  \cup OtherDocs

-----------------------------------------------------------------------------
(* convert                                                                 *)

Init ==
  /\ soup \in Inputs
  /\ parsed = soup
  /\ pc = "tue_phising_note"
  /\ raised = ""
  /\ img_refs = <<>>
  /\ links = <<>>
  /\ output = <<>>

\* a pass that returns: the tree it leaves and the pass that follows
Pass(here, tree, next) ==
  /\ pc = here
  /\ soup' = tree
  /\ pc' = next
  /\ UNCHANGED <<parsed, raised, img_refs, links, output>>

\* a pass that may raise: r = [soup, raised]; an exception ends convert
PassOrRaise(here, r, next) ==
  /\ pc = here
  /\ soup' = r.soup
  /\ raised' = r.raised
  /\ pc' = IF r.raised = "" THEN next ELSE "raised"
  /\ UNCHANGED <<parsed, img_refs, links, output>>

TuePhisingNote == Pass("tue_phising_note", tue_phising_note(soup), "mark_blocks")
MarkBlocks == Pass("mark_blocks", mark_blocks(soup), "cssprops2htmlattrs")
CssProps2HtmlAttrs ==
  Pass("cssprops2htmlattrs", cssprops2htmlattrs(soup), "inline_style_blocks")
InlineStyleBlocks == Pass("inline_style_blocks", inline_style_blocks(soup), "add_defaults")
AddDefaults == Pass("add_defaults", add_defaults(soup), "css2html_markup")
Css2HtmlMarkup == Pass("css2html_markup", css2html_markup(soup), "sanitize_tree")
SanitizeTree == Pass("sanitize_tree", sanitize_tree(soup), "br_type_original")
BrTypeOriginal == Pass("br_type_original", br_type_original(soup), "link_rewriting")
LinkRewriting == Pass("link_rewriting", link_rewriting(soup), "direct_unwraps")
DirectUnwraps == Pass("direct_unwraps", direct_unwraps(soup), "cssmargin2br")
CssMargin2Br ==
  \E order \in Perms({"top", "bottom"}) :
    PassOrRaise("cssmargin2br", cssmargin2br(soup, order), "sweat_whitespace")
SweatWhitespace == Pass("sweat_whitespace", sweat_whitespace(soup), "trim_whitespace")
TrimWhitespace == Pass("trim_whitespace", trim_whitespace(soup), "sweat_markup")
SweatMarkup ==
  \E order \in Perms(MARKUP \cap NamesIn(soup)) :
    Pass("sweat_markup", sweat_markup(soup, order), "borderstyle2border")
BorderStyle2Border ==
  PassOrRaise("borderstyle2border", borderstyle2border(soup), "border2tag")
Border2Tag ==
  \E order \in Perms({p \in BorderProperties : ("css-" \o p) \in AttrsIn(soup)}) :
    Pass("border2tag", border2tag(soup, order), "linebreak_blocks")
LinebreakBlocks ==
  Pass("linebreak_blocks", linebreak_blocks(soup), "ms_sender_identification")
MsSenderIdentification ==
  PassOrRaise("ms_sender_identification", ms_sender_identification(soup), "remove_empty")
RemoveEmpty == Pass("remove_empty", remove_empty(soup), "replace_hrs")
ReplaceHrs == Pass("replace_hrs", replace_hrs(soup), "replace_headings")
ReplaceHeadings == Pass("replace_headings", replace_headings(soup), "replace_anchors")
ReplaceAnchors ==
  PassOrRaise("replace_anchors", replace_anchors(soup), "unwrap_table_cells")
\* the last step of direct_replacements, soup.smooth() included
UnwrapTableCells ==
  Pass("unwrap_table_cells", smooth(unwrap_table_cells(soup)), "merge_markup")
MergeMarkup ==
  \E order \in Perms(MERGEABLE) :
    Pass("merge_markup", merge_markup(soup, order), "markup2text")
Markup2Text == Pass("markup2text", markup2text(soup), "replace_imgs")
ReplaceImgs ==
  /\ pc = "replace_imgs"
  /\ soup' = replace_imgs(soup).soup
  /\ img_refs' = replace_imgs(soup).img_refs
  /\ pc' = "ul_compilation"
  /\ UNCHANGED <<parsed, raised, links, output>>
UlCompilation == Pass("ul_compilation", ul_compilation(soup), "ol_compilation")
OlCompilation == PassOrRaise("ol_compilation", ol_compilation(soup), "indent_lists")
IndentLists == Pass("indent_lists", indent_lists(soup), "tags2text")
Tags2Text ==
  /\ pc = "tags2text"
  /\ soup' = tags2text(soup).soup
  /\ raised' = tags2text(soup).raised
  /\ links' = tags2text(soup).log
  /\ pc' = IF tags2text(soup).raised = "" THEN "unwrap_remaining" ELSE "raised"
  /\ UNCHANGED <<parsed, img_refs, output>>
UnwrapRemaining == Pass("unwrap_remaining", unwrap_remaining(soup), "cull_brs")
CullBrs == Pass("cull_brs", cull_brs(soup), "replace_blockquotes")
ReplaceBlockquotes == Pass("replace_blockquotes", replace_blockquotes(soup), "brs2linebreaks")
Brs2Linebreaks == Pass("brs2linebreaks", brs2linebreaks(soup), "return")
Return ==
  /\ pc = "return"
  /\ output' = Output(soup, img_refs)
  /\ pc' = "done"
  /\ UNCHANGED <<soup, parsed, raised, img_refs, links>>

Next ==
  \/ TuePhisingNote \/ MarkBlocks \/ CssProps2HtmlAttrs \/ InlineStyleBlocks
  \/ AddDefaults \/ Css2HtmlMarkup \/ SanitizeTree \/ BrTypeOriginal
  \/ LinkRewriting \/ DirectUnwraps \/ CssMargin2Br \/ SweatWhitespace
  \/ TrimWhitespace \/ SweatMarkup \/ BorderStyle2Border \/ Border2Tag
  \/ LinebreakBlocks \/ MsSenderIdentification \/ RemoveEmpty \/ ReplaceHrs
  \/ ReplaceHeadings \/ ReplaceAnchors \/ UnwrapTableCells \/ MergeMarkup
  \/ Markup2Text \/ ReplaceImgs \/ UlCompilation \/ OlCompilation
  \/ IndentLists \/ Tags2Text \/ UnwrapRemaining \/ CullBrs
  \/ ReplaceBlockquotes \/ Brs2Linebreaks \/ Return

Spec == Init /\ [][Next]_vars


-----------------------------------------------------------------------------
(* Properties of convert and of its passes.  A pass is judged on the trees *)
(* that reach it in convert; links is the record tags2text leaves of the   *)
(* anchors it numbered and of the link blocks it closed.                   *)

\* C1: convert on <p>Hello <b>world</b>!</p> raises nothing and returns
\* exactly the string "Hello *world*!", with no leading or trailing newline.
C1_HelloWorld ==
  parsed = HelloDoc => /\ pc # "raised"
                       /\ (pc = "done" => output = HelloOutput)

C1_Witness == parsed = HelloDoc /\ pc = "done" /\ output = HelloOutput

\* the anchors tags2text numbered, and the scope of each: the number of
\* link blocks closed before it
AnchorEvents == {i \in 1..Len(links) : links[i].op = "anchor"}
ScopeOf(i) == Cardinality({j \in 1..(i - 1) : links[j].op = "close"})
FirstOfScope(i) ==
  ~\E j \in AnchorEvents : j < i /\ ScopeOf(j) = ScopeOf(i)

\* C2: two anchors of one link block scope get the same ordinal exactly
\* when their reference keys are equal; a key met later gets a larger
\* ordinal; the first key of a scope gets ordinal 1.
C2_OrdinalStability ==
  /\ \A i, j \in AnchorEvents :
       (i < j /\ ScopeOf(i) = ScopeOf(j)) =>
         /\ (links[i].ref = links[j].ref) <=> (links[i].k = links[j].k)
         /\ links[j].new => links[i].k < links[j].k
  /\ \A i \in AnchorEvents : FirstOfScope(i) => links[i].k = 1

\* C3: in every scope the ordinals are 1, 2, 3, ...: a key new to its
\* scope gets one more than the number of keys the scope had before it,
\* however many links the scopes closed earlier contained.
C3_OrdinalsResetPerScope ==
  \A i \in AnchorEvents :
    links[i].new =>
      links[i].k = 1 + Cardinality({j \in AnchorEvents :
                                      j < i /\ ScopeOf(j) = ScopeOf(i) /\ links[j].new})

\* the anchors with a destination, in document order
Destined(t) ==
  SelectSeq(TagPaths(t, <<>>),
            LAMBDA p : At(t, p).name = "a" /\ Truthy(At(t, p), "href"))
\* every anchor has a destination: replace_anchors unwraps none, paths stay
AllDestined(t) ==
  \A i \in 1..Len(TagPaths(t, <<>>)) :
     At(t, TagPaths(t, <<>>)[i]).name = "a" => Truthy(At(t, TagPaths(t, <<>>)[i]), "href")
\* the visible text equals the destination, is its final path segment, or
\* is the destination without its scheme prefix
Coinciding(a) ==
  LET text == string(a)
      href == a.attrs["href"]
  IN /\ text # NoString
     /\ text # <<>>
     /\ \/ text = href
        \/ text = UrlBasename(href)
        \/ \E scheme \in {MAILTO, PHONE, HTTP} : href = scheme \o text

\* C4: replace_anchors replaces every anchor whose text coincides with its
\* destination (equal, final path segment, destination without scheme) by
\* bare text, and leaves every other anchor with a destination in place.
C4_AnchorsCollapse ==
  [][(pc = "replace_anchors" /\ AllDestined(soup)) =>
       \A i \in 1..Len(Destined(soup)) :
          LET p == Destined(soup)[i]
              a == At(soup, p)
          IN IF Coinciding(a)
             THEN /\ IsString(At(soup', p))
                  /\ At(soup', p).string \in {string(a), a.attrs["href"]}
             ELSE At(soup', p) = a]_vars

\* the 26 letters; the ordinals that have a symbol in a numbering system
Alphabet == LowerLatin \o <<"x", "y", "z">>
UpperAlphabet == UpperLatin \o <<"X", "Y", "Z">>
OrdinalSymbol(lst, n) ==
  CASE lst = "decimal" -> Str10(n)
    [] lst = "lower-latin" -> <<Alphabet[n]>>
    [] lst = "upper-latin" -> <<UpperAlphabet[n]>>
    [] lst = "lower-roman" -> LowerRoman[n]
    [] lst = "upper-roman" -> UpperRoman[n]
HasSymbol(lst, n) ==
  CASE lst = "decimal" -> n >= 0
    [] lst \in {"lower-latin", "upper-latin"} -> n \in 1..Len(Alphabet)
    [] lst \in {"lower-roman", "upper-roman"} -> n \in 1..Len(LowerRoman)
    [] OTHER -> FALSE

Ols(t) == SelectSeq(TagPaths(t, <<>>), LAMBDA p : At(t, p).name = "ol")
Lis(ol) == SelectSeq(ol.contents, LAMBDA x : IsTag(x) /\ x.name = "li")
SystemOf(ol) == IF Truthy(ol, "type") THEN TYPEATTR2LST(ol.attrs["type"]) ELSE "decimal"
StartOf(ol) == IF Truthy(ol, "start") THEN int(ol.attrs["start"]) ELSE 1
\* a list of one of the five systems whose ordinals s .. s+n-1 have symbols
Numberable(ol) ==
  /\ SystemOf(ol) # "KeyError"
  /\ StartOf(ol) # NoInt
  /\ \A k \in 1..Len(Lis(ol)) : HasSymbol(SystemOf(ol), StartOf(ol) + k - 1)

\* C5: ol_compilation gives the k-th direct item (k = 0..n-1) of a list of
\* system T and start s, when the item has no hint of its own, the symbol
\* of ordinal s+k in T followed by ". " as first content, for every s and
\* n; a missing start is s = 1.
C5_OrdinalSymbols ==
  [][(pc = "ol_compilation"
      /\ \A i \in 1..Len(Ols(soup)) : Numberable(At(soup, Ols(soup)[i]))) =>
       /\ pc' # "raised"
       /\ \A i \in 1..Len(Ols(soup)) :
            LET ol == At(soup, Ols(soup)[i])
                done == At(soup', Ols(soup')[i])
            IN \A k \in 1..Len(Lis(ol)) :
                 ~Truthy(Lis(ol)[k], "css-list-style-type") =>
                   LET first == Lis(done)[k].contents[1]
                   IN /\ IsString(first)
                      /\ StartsWith(first.string,
                                    OrdinalSymbol(SystemOf(ol), StartOf(ol) + k - 1)
                                      \o <<".", " ">>)]_vars

RECURSIVE QuoteTokens(_, _)
\* the strings and breaks below t in document order, each with the number
\* of blockquotes around it (t itself stands at depth d)
QuoteTokens(t, d) ==
  IF IsString(t) THEN <<[br |-> FALSE, d |-> d, s |-> t.string]>>
  ELSE IF t.name = "br" THEN <<[br |-> TRUE, d |-> d, s |-> <<>>]>>
  ELSE LET e == IF t.name = "blockquote" THEN d + 1 ELSE d
           Kid(x) == QuoteTokens(x, e)
       IN Flatten(MapSeq(Kid, t.contents))

RECURSIVE LinesOf(_)
\* the tokens split into lines at the breaks
LinesOf(toks) ==
  LET brs == {i \in 1..Len(toks) : toks[i].br}
  IN IF brs = {} THEN <<toks>>
     ELSE LET i == CHOOSE b \in brs : \A c \in brs : b <= c
          IN <<SubSeq(toks, 1, i - 1)>> \o LinesOf(SubSeq(toks, i + 1, Len(toks)))

LineText(line) == Flatten(MapSeq(LAMBDA tok : tok.s, line))

RECURSIVE Markers(_)
\* the number of quote markers a line starts with
Markers(s) == IF StartsWith(s, QUOTE) THEN 1 + Markers(SubSeq(s, 3, Len(s))) ELSE 0

\* C6: after replace_blockquotes every line starts with exactly d quote
\* markers, d the number of blockquotes that enclosed the text of the line
\* (the first line of a blockquote and every line after a break inside it);
\* a line with text that no blockquote enclosed starts with no marker.
C6_QuoteMarkers ==
  [][pc = "replace_blockquotes" =>
       LET before == LinesOf(QuoteTokens(soup, 0))
           after == LinesOf(QuoteTokens(soup', 0))
       IN /\ Len(after) = Len(before)
          /\ \A i \in 1..Len(before) :
               \A j \in 1..Len(before[i]) :
                  before[i][j].s # <<>> =>
                    Markers(LineText(after[i])) = before[i][j].d]_vars

\* no sweepable element starts or ends with a break, an empty text, or a
\* text with whitespace at that end
Swept(t) ==
  \A i \in 1..Len(TagPaths(t, <<>>)) :
     LET tag == At(t, TagPaths(t, <<>>)[i])
         c == tag.contents
         Clean(child, at) ==
           /\ child.name # "br"
           /\ IsString(child) =>
                /\ child.string # <<>>
                /\ child.string[IF at = 0 THEN 1 ELSE Len(child.string)] \notin Whitespace
     IN (tag.name \in SWEATABLE /\ c # <<>>) =>
          Clean(c[1], 0) /\ Clean(c[Len(c)], 0 - 1)

\* C7: when sweat_whitespace returns, no sweepable element has a break, an
\* empty text or a text with outer whitespace as first or last child, and
\* a second sweat_whitespace changes nothing.
C7_SweptAndIdempotent ==
  pc = "trim_whitespace" => Swept(soup) /\ sweat_whitespace(soup) = soup

\* <p>z<b><i> x</i></b></p>: the whitespace leaves i in the first
\* iteration of the loop and b in the second
NestedSpaceDoc ==
  Doc(<<E("p", <<T("z"), E("b", <<E("i", <<Text(<<" ", "x">>)>>)>>)>>)>>)

C7_Witness ==
  /\ pc = "trim_whitespace"
  /\ parsed = NestedSpaceDoc
  /\ Swept(soup)
  /\ \E i \in 1..Len(TagPaths(soup, <<>>)) :
        At(soup, TagPaths(soup, <<>>)[i]).name = "b"

Delimiters == {"*", "/", "_", "~"}

RECURSIVE DelimiterFree(_)
\* no text and no destination, title or image source of the document has a
\* delimiter character: every delimiter of the output is markup2text's
DelimiterFree(t) ==
  IF IsString(t) THEN \A i \in 1..Len(t.string) : t.string[i] \notin Delimiters
  ELSE /\ \A k \in DOMAIN t.attrs \cap {"href", "title", "src", "alt", "originalsrc"} :
            \A i \in 1..Len(t.attrs[k]) : t.attrs[k][i] \notin Delimiters
       /\ \A i \in 1..Len(t.contents) : DelimiterFree(t.contents[i])

\* C8: in the text convert returns no delimiter of markup2text has a
\* whitespace character right after it when it opens or right before it
\* when it closes.  (Markup of a kind is not nested in its own kind, so
\* the odd occurrences of a delimiter open and the even ones close.)
C8_TightDelimiters ==
  (pc = "done" /\ DelimiterFree(parsed)) =>
    \A i \in 1..Len(output) :
       output[i] \in Delimiters =>
         LET k == Cardinality({j \in 1..i : output[j] = output[i]})
         IN IF k % 2 = 1
            THEN i < Len(output) => output[i + 1] \notin Whitespace
            ELSE i > 1 => output[i - 1] \notin Whitespace

\* bold and italic markup, strong counted as b and em as i
IsMarkup(x) == IsTag(x) /\ EQUIVALENT(x.name) \in MERGEABLE
SameKind(x, y) == IsMarkup(x) /\ IsMarkup(y) /\ EQUIVALENT(x.name) = EQUIVALENT(y.name)

\* C9: after merge_markup no two markup elements of one kind are adjacent
\* siblings or siblings with only whitespace between them, and no markup
\* element has an ancestor of its own kind.
C9_MarkupMerged ==
  pc = "markup2text" =>
    /\ \A q \in {<<>>} \cup {TagPaths(soup, <<>>)[i] : i \in 1..Len(TagPaths(soup, <<>>))} :
         LET c == At(soup, q).contents
         IN /\ \A i \in 1..(Len(c) - 1) : ~SameKind(c[i], c[i + 1])
            /\ \A i \in 1..(Len(c) - 2) :
                 ~(/\ SameKind(c[i], c[i + 2])
                   /\ IsString(c[i + 1])
                   /\ isspace(c[i + 1].string))
    /\ \A i \in 1..Len(TagPaths(soup, <<>>)) :
         LET p == TagPaths(soup, <<>>)[i]
         IN IsMarkup(At(soup, p)) =>
              \A n \in 1..(Len(p) - 1) : ~SameKind(At(soup, SubSeq(p, 1, n)), At(soup, p))

\* no element of a non-void kind is without content
NoEmptyLeft(t) ==
  \A i \in 1..Len(TagPaths(t, <<>>)) :
     LET tag == At(t, TagPaths(t, <<>>)[i])
     IN tag.name \notin VOIDS => ~Empty(tag)

RECURSIVE Substance(_)
\* what remove_empty has to keep of t: the void elements, the texts that
\* are not empty, and the elements that contain any of these
Substance(t) ==
  LET Kid(x) ==
        IF IsString(x) THEN (IF x.string = <<>> THEN <<>> ELSE <<x>>)
        ELSE IF x.name \in VOIDS THEN <<x>>
        ELSE IF Substance(x).contents = <<>> THEN <<>> ELSE <<Substance(x)>>
  IN [t EXCEPT !.contents = SmoothSeq(Flatten(MapSeq(Kid, @)))]

\* C10: when remove_empty returns, no non-void element is left without
\* content, ancestors emptied by the removal of their descendants included,
\* and nothing else is gone: every void element, every text and every
\* element that contains one is still there.
C10_PrunedToFixpoint ==
  [][pc = "remove_empty" =>
       /\ NoEmptyLeft(soup')
       /\ Substance(soup') = Substance(soup)]_vars

C10_Witness ==
  /\ pc = "replace_hrs"
  /\ parsed = SpanDoc
  /\ ~HasDescendantNamed(soup, {"p", "span"})
  /\ HasDescendantNamed(soup, {"br"})


-----------------------------------------------------------------------------
(* Block separation                                                        *)

IsMarker(x) == IsTag(x) /\ x.name = "br"
IsBlocksMarker(x) == IsMarker(x) /\ Has(x, "type") /\ x.attrs["type"] = "blocks"
IsBlock(x) == IsTag(x) /\ Has(x, "block")

\* the contents of every element of t
Families(t) == {At(t, TagPaths(t, <<>>)[i]).contents : i \in 1..Len(TagPaths(t, <<>>))}

\* positions i < j in c of two block children with no block child between
ConsecutiveBlocks(c) ==
  {ij \in (1..Len(c)) \X (1..Len(c)) :
     /\ ij[1] < ij[2]
     /\ IsBlock(c[ij[1]])
     /\ IsBlock(c[ij[2]])
     /\ \A k \in (ij[1] + 1)..(ij[2] - 1) : ~IsBlock(c[k])}

\* the number of break markers of c strictly between positions i and j
MarkersBetween(c, i, j) == Cardinality({k \in (i + 1)..(j - 1) : IsMarker(c[k])})

-----------------------------------------------------------------------------
(* Lists                                                                   *)

IsList(x) == IsTag(x) /\ x.name \in {"ul", "ol"}
Hinted(x) == Truthy(x, "type") \/ Truthy(x, "css-list-style-type")

\* every list of t is an unordered list without a hint, its items included
PlainUls(t) ==
  \A i \in 1..Len(TagPaths(t, <<>>)) :
     LET x == At(t, TagPaths(t, <<>>)[i])
     IN /\ x.name # "ol"
        /\ x.name \in {"ul", "li"} => ~Hinted(x)

RECURSIVE ListTokens(_, _)
\* the strings and breaks below t in document order, each with the number
\* of lists around it (t itself stands at depth d)
ListTokens(t, d) ==
  IF IsString(t) THEN <<[br |-> FALSE, d |-> d, s |-> t.string]>>
  ELSE IF t.name = "br" THEN <<[br |-> TRUE, d |-> d, s |-> <<>>]>>
  ELSE LET Kid(x) == ListTokens(x, IF IsList(t) THEN d + 1 ELSE d)
       IN Flatten(MapSeq(Kid, t.contents))

\* the number of tabs s starts with
LeadingTabs(s) == lstrip_n(s, {"\t"})

Bullet == <<BulletDisc, " ">>

RECURSIVE ListPart(_)
\* a line from its first token that stands in a list
ListPart(line) ==
  IF line # <<>> /\ Head(line).d = 0 THEN ListPart(Tail(line)) ELSE line

\* the number of lists around the innermost token of a line
Deepest(line) ==
  CHOOSE d \in {line[j].d : j \in 1..Len(line)} :
     \A j \in 1..Len(line) : line[j].d <= d

\* the lines of t, each from its first token in a list
ListLines(t) == MapSeq(ListPart, LinesOf(ListTokens(t, 0)))

\* C12: in a document whose lists are unordered lists without hints, every
\* direct item starts with the bullet and a space, and after
\* list_compilations every line of a list (its first line and each line
\* after a break inside it) starts with one tab for each list around the
\* innermost text of that line.
C12_BulletsAndTabs ==
  (pc = "tags2text" /\ PlainUls(parsed)) =>
    /\ \A c \in Families(soup) :
         \A i \in 1..Len(c) :
            (IsTag(c[i]) /\ c[i].name = "li") =>
               /\ c[i].contents # <<>>
               /\ IsString(c[i].contents[1])
               /\ StartsWith(c[i].contents[1].string, Bullet)
    /\ \A k \in 1..Len(ListLines(soup)) :
         ListLines(soup)[k] # <<>> =>
           LeadingTabs(LineText(ListLines(soup)[k])) = Deepest(ListLines(soup)[k])


\* a list whose type hint is none of the five known types
UnknownType(ol) == Truthy(ol, "type") /\ TYPEATTR2LST(ol.attrs["type"]) = "KeyError"

\* an unknown type aside, the ordinals of the list have decimal symbols
DecimalNumberable(ol) ==
  /\ StartOf(ol) # NoInt
  /\ \A k \in 1..Len(Lis(ol)) : HasSymbol("decimal", StartOf(ol) + k - 1)

\* C13: a list with a type hint that is none of 1, a, A, i, I does not make
\* ol_compilation fail: its items are numbered with the decimal system and
\* the conversion goes on.
C13_UnknownTypeIsDecimal ==
  [][(/\ pc = "ol_compilation"
      /\ \E i \in 1..Len(Ols(soup)) : UnknownType(At(soup, Ols(soup)[i]))
      /\ \A i \in 1..Len(Ols(soup)) :
           IF UnknownType(At(soup, Ols(soup)[i]))
           THEN DecimalNumberable(At(soup, Ols(soup)[i]))
           ELSE Numberable(At(soup, Ols(soup)[i]))) =>
       /\ pc' = "indent_lists"
       /\ \A i \in 1..Len(Ols(soup)) :
            UnknownType(At(soup, Ols(soup)[i])) =>
              \A k \in 1..Len(Lis(At(soup, Ols(soup)[i]))) :
                 ~Truthy(Lis(At(soup, Ols(soup)[i]))[k], "css-list-style-type") =>
                   /\ IsString(Lis(At(soup', Ols(soup')[i]))[k].contents[1])
                   /\ StartsWith(Lis(At(soup', Ols(soup')[i]))[k].contents[1].string,
                                 Str10(StartOf(At(soup, Ols(soup)[i])) + k - 1)
                                   \o <<".", " ">>)]_vars


-----------------------------------------------------------------------------
(* Serialization                                                           *)

\* C14: convert returns an output only when the root has reduced to a
\* single text; when it has not (the whole document was pruned as empty,
\* say) the conversion ends with an error and the caller receives no
\* string, no placeholder and no partial text.
C14_OutputOnlyFromSingleText ==
  [][pc = "return" =>
       IF string(soup) = NoString
       THEN pc' = "raised" /\ output' = <<>>
       ELSE pc' = "done"]_vars


-----------------------------------------------------------------------------
(* Fixpoint loops                                                          *)

RECURSIVE NodeCount(_)
\* the number of nodes of t: t, its elements and its texts
NodeCount(t) ==
  IF IsString(t) THEN 1
  ELSE LET RECURSIVE Sum(_)
           Sum(c) == IF c = <<>> THEN 0 ELSE NodeCount(Head(c)) + Sum(Tail(c))
       IN 1 + Sum(t.contents)

\* the runs of the per-parent loop of merge_markup for one tag name: the
\* number k of siblings pending at its start and the number n of iterations
PendingRuns(t, tag_name) ==
  LET Nested(u, p) == At(u, p).name = tag_name /\ HasAncestorNamed(u, p, {tag_name})
      Run(st, entry) ==
        LET Done(r) ==
              [t |-> Put(r.t, Find(r.t, entry.parent),
                         smooth(At(r.t, Find(r.t, entry.parent)))),
               runs |-> Append(st.runs, [k |-> Len(entry.siblings), n |-> r.n])]
        IN Done(MergeSiblings(st.t, entry.siblings, 0))
      Start(m) == ForEach(Run, [t |-> m, runs |-> <<>>], SiblingMap(m, tag_name)).runs
  IN Start(Mark(Unmark(ForSelected(t, Nested, unwrap))))

RECURSIVE RunsOf(_, _)
\* the runs of the per-parent loop over the tag names in the order taken
RunsOf(t, order) ==
  IF order = <<>> THEN <<>>
  ELSE PendingRuns(t, Head(order)) \o RunsOf(MergeName(t, Head(order)), Tail(order))

\* the tree merge_markup has when it enters the loop over MERGEABLE
Renamed(t) == OnTags(LAMBDA tag : [tag EXCEPT !.name = EQUIVALENT(@)], smooth(t))

SweatEnds(t) ==
  LET Ended(r) == r.n <= NodeCount(t) /\ ~SweatIteration(r.t).sweating
  IN Ended(SweatLoop(Mark(t), 0))

RemoveEmptyEnds(t) ==
  LET Ended(r) == /\ r.n <= NodeCount(t)
                  /\ r.n - 1 <= NodeCount(t) - NodeCount(r.t)
                  /\ ~RemoveEmptyIteration(r.t).some
  IN Ended(RemoveEmptyLoop(t, 0))

MergeEnds(t) ==
  \A order \in Perms(MERGEABLE) :
     \A i \in 1..Len(RunsOf(Renamed(t), order)) :
        LET Ended(run) == /\ run.n = (IF run.k < 2 THEN 0 ELSE run.k - 1)
                          /\ run.n <= NodeCount(t)
        IN Ended(RunsOf(Renamed(t), order)[i])

\* C15: each fixpoint loop ends, after at most as many iterations as the
\* tree has nodes: the loop of sweat_whitespace ends with an iteration that
\* moves nothing, the loop of remove_empty removes at least one node in
\* every iteration but the last, and the per-parent loop of merge_markup
\* makes one iteration less than it has pending siblings.
C15_LoopsEnd ==
  /\ pc = "sweat_whitespace" => SweatEnds(soup)
  /\ pc = "remove_empty" => RemoveEmptyEnds(soup)
  /\ pc = "merge_markup" => MergeEnds(soup)

\* three siblings pending under one parent: two iterations
C15_Witness ==
  /\ pc = "merge_markup"
  /\ parsed = ThreeBoldDoc
  /\ \E i \in 1..Len(RunsOf(Renamed(soup), <<"b", "i">>)) :
       /\ RunsOf(Renamed(soup), <<"b", "i">>)[i].k = 3
       /\ RunsOf(Renamed(soup), <<"b", "i">>)[i].n = 2


-----------------------------------------------------------------------------
(* Item hints                                                              *)

\* t with the style hint taken off every list item
WithoutItemHints(t) ==
  OnTags(LAMBDA tag : IF tag.name = "li" THEN DelAttr(tag, "css-list-style-type")
                      ELSE tag, t)

\* the items without a hint of their own start in the tree after as they do
\* in the tree ref, which was compiled with no item hint at all
SamePrefixes(before, after, ref) ==
  \A i \in 1..Len(TagPaths(before, <<>>)) :
     LET Same(li, a, r) ==
           (li.name = "li" /\ ~Truthy(li, "css-list-style-type")) =>
              a.contents[1] = r.contents[1]
     IN Same(At(before, TagPaths(before, <<>>)[i]),
             At(after, TagPaths(after, <<>>)[i]),
             At(ref, TagPaths(ref, <<>>)[i]))

HasHintedItem(t) ==
  \E i \in 1..Len(TagPaths(t, <<>>)) :
     /\ At(t, TagPaths(t, <<>>)[i]).name = "li"
     /\ Truthy(At(t, TagPaths(t, <<>>)[i]), "css-list-style-type")

\* C16: in ul_compilation and in ol_compilation the style hint of a list
\* item changes the prefix of that item only: every item without a hint of
\* its own gets the prefix it would get if no item of the list had a hint.
C16_ItemHintIsLocal ==
  [][/\ (pc = "ul_compilation" /\ HasHintedItem(soup)) =>
          SamePrefixes(soup, soup', ul_compilation(WithoutItemHints(soup)))
     /\ (pc = "ol_compilation" /\ HasHintedItem(soup) /\ pc' # "raised") =>
          SamePrefixes(soup, soup', ol_compilation(WithoutItemHints(soup)).soup)]_vars


-----------------------------------------------------------------------------
(* The link registry                                                       *)

Closes(L) == {j \in 1..Len(L) : L[j].op = "close"}
Anchors(L) == {i \in 1..Len(L) : L[i].op = "anchor"}

\* the event that closes the scope of anchor event i: 0 when none does
CloseOf(L, i) ==
  IF \E j \in Closes(L) : j > i
  THEN CHOOSE j \in Closes(L) : j > i /\ \A m \in Closes(L) : m > i => j <= m
  ELSE 0

\* the reference line of a registry entry
RefLine(e) == <<"\t", "[">> \o Str10(e.k) \o <<"]", ":", " ">> \o e.ref

RECURSIVE Occurrences(_, _)
\* the number of texts of t that read s
Occurrences(t, s) ==
  IF IsString(t) THEN (IF t.string = s THEN 1 ELSE 0)
  ELSE LET RECURSIVE Sum(_)
           Sum(c) == IF c = <<>> THEN 0 ELSE Occurrences(Head(c), s) + Sum(Tail(c))
       IN Sum(t.contents)

\* every anchor is numbered under an active container that encloses it, and
\* the close of that container lists its key and ordinal exactly once
AnchorsScoped(L) ==
  \A i \in Anchors(L) :
     LET Listed(a, j) ==
           /\ j # 0
           /\ L[j].tag = a.block
           /\ Cardinality({m \in 1..Len(L[j].refs) :
                             L[j].refs[m] = [ref |-> a.ref, k |-> a.k]}) = 1
     IN /\ L[i].block # NoPath
        /\ \E n \in 1..Len(L[i].enclosing) : L[i].enclosing[n] = L[i].block
        /\ Listed(L[i], CloseOf(L, i))

\* a close lists the registry in rising ordinal order, and the registry
\* holds the anchors numbered since the close before, nothing else
ClosesSorted(L) ==
  \A j \in Closes(L) :
     /\ \A m \in 1..(Len(L[j].refs) - 1) : L[j].refs[m].k < L[j].refs[m + 1].k
     /\ \A m \in 1..Len(L[j].refs) :
          \E i \in Anchors(L) :
             /\ CloseOf(L, i) = j
             /\ L[i].ref = L[j].refs[m].ref
             /\ L[i].k = L[j].refs[m].k

\* the tree has one reference line for every listing of a key in a close
LinesWritten(L, t) ==
  \A i \in Anchors(L) :
     LET Line(e) ==
           Occurrences(t, RefLine(e))
             = Cardinality({j \in Closes(L) :
                              \E m \in 1..Len(L[j].refs) : L[j].refs[m] = e})
     IN Line([ref |-> L[i].ref, k |-> L[i].k])

\* C17: in the walk of tags2text the registry has entries only while a
\* container is active, the container encloses every anchor numbered while
\* it is active, and the end of the container writes one reference line per
\* entry in rising ordinal order and empties the registry; so when
\* tags2text returns every ordinal written into the text is listed once,
\* with the key of its anchor, in the block of a container around the
\* anchor, and the registry is empty.
C17_RegistryScoped ==
  [][(pc = "tags2text" /\ pc' # "raised") =>
       /\ tags2text(soup).link_map = <<>>
       /\ tags2text(soup).link_block_tag = NoPath
       /\ AnchorsScoped(links')
       /\ ClosesSorted(links')
       /\ LinesWritten(links', soup')]_vars

\* two scopes under one div, the second with two keys
C17_Witness ==
  /\ pc = "unwrap_remaining"
  /\ parsed = DivScopeDoc
  /\ Cardinality(Closes(links)) = 2
  /\ \E j \in Closes(links) : Len(links[j].refs) = 2

=============================================================================
